---- MODULE Spec2Model ----
(***************************************************************************)
(* The TPU client of solana-sniper-bot (src/unnamed/part_000): the recent  *)
(* slot window, the leader schedule cache, the refresh loop of             *)
(* LeaderTpuService and the datagram fanout of TpuClient.                   *)
(*                                                                         *)
(* JavaScript values are modelled as integers: a slot, a leader identity   *)
(* and a socket address are positive numbers, `undefined` is UNDEFINED and *)
(* `null` is NULL.  NaN only ever arises from arithmetic on `undefined`,   *)
(* and every comparison with it is false; the guards below spell that out. *)
(***************************************************************************)
EXTENDS Integers, Sequences, FiniteSets, TLC

\* ------------------------------------------------------------------ bounds
NumLeaders == 3
MaxSchedule == 3
MaxNotifs == 2
MaxLiveNotifs == 20
MaxWindowNotifs == 13
MaxEstNotifs == 5
MaxFrameNotifs == 1
MaxPasses == 303
StartSlot == 10
FarJump == 120
NearJump == 60
MaxExecs == 3
MaxLoopPasses == 2
MaxTasks == 3
MaxPools == 3
MaxLockers == 3
MaxWalletNotifs == 2

\* ------------------------------------------------------- program constants
MAX_SLOT_SKIP_DISTANCE == 48
DEFAULT_FANOUT_SLOTS == 12
MAX_FANOUT_SLOTS == 100
MAX_RECENT_SLOTS == 12
SLEEP_MS == 1000
CLUSTER_REFRESH_MS == 300000
UNDEFINED == -1
NULL == 0

\* ------------------------------------------------------------ value domains
\* Leader identities (PublicKey.toBase58()).
Ids == 1..NumLeaders
\* Socket addresses ("host:port" strings).
Sockets == {1, 2}

Min(a, b) == IF a <= b THEN a ELSE b
Max(a, b) == IF a >= b THEN a ELSE b
Range(s) == {s[i] : i \in 1..Len(s)}
SeqsUpTo(S, n) == UNION {[1..m -> S] : m \in 1..n}
\* The elements of s at the positions in P, in order.
KeepPositionsOf(s, P) ==
    [n \in 1..Cardinality(P) |->
        s[CHOOSE p \in P : Cardinality({q \in P : q <= p}) = n]]

\* Number of positions of s holding x.
Count(s, x) == Cardinality({i \in 1..Len(s) : s[i] = x})

\* ================================================================ estimator
\* Denque.push followed by the `while (length > 12) pop()` loop: pop removes
\* the element at the BACK of the deque, the one push has just appended.
\* Faulty variant: the loop pops until the deque is empty.
PopWhileOver_All(w) == IF Len(w) > MAX_RECENT_SLOTS THEN <<>> ELSE w

RECURSIVE PopWhileOver(_)
PopWhileOver(w) ==
    IF Len(w) > MAX_RECENT_SLOTS THEN PopWhileOver(SubSeq(w, 1, Len(w) - 1)) ELSE w

\* Faulty variant: nothing is ever evicted.
recordSlot_NoEvict(w, current_slot) == Append(w, current_slot)

recordSlot(w, current_slot) == PopWhileOver(Append(w, current_slot))

\* Array.prototype.sort((a, b) => a - b): the elements in ascending order.
\* Position i holds the value v with fewer than i elements below it and at
\* least i elements not above it.
SortAsc(w) ==
    [i \in 1..Len(w) |->
        CHOOSE v \in Range(w) :
            /\ Cardinality({j \in 1..Len(w) : w[j] < v}) < i
            /\ i <= Cardinality({j \in 1..Len(w) : w[j] <= v})]

\* sortedRecentSlots.reverse().find(slot => slot <= bound): scan from the
\* largest element down; `undefined` when none qualifies.
RECURSIVE FindFromLargest(_, _, _)
FindFromLargest(sorted, i, bound) ==
    IF i < 1 THEN UNDEFINED
    ELSE IF sorted[i] <= bound THEN sorted[i]
    ELSE FindFromLargest(sorted, i - 1, bound)

\* `max_index / 2` is a floating-point division: for an odd max_index the
\* index is fractional, sorted[index] is undefined, the bound is NaN and no
\* element satisfies `slot <= NaN`, so find returns undefined.
estimatedCurrentSlot(w) ==
    LET sorted == SortAsc(w)
        max_index == Len(sorted) - 1
    IN  IF max_index % 2 = 1 THEN UNDEFINED
        ELSE LET median_index == max_index \div 2
                 median_recent_slot == sorted[median_index + 1]
                 expected_current_slot == median_recent_slot + (max_index - median_index)
                 max_reasonable_current_slot == expected_current_slot + MAX_SLOT_SKIP_DISTANCE
             IN  FindFromLargest(sorted, Len(sorted), max_reasonable_current_slot)

\* ==================================================================== cache
\* Map.get: the stored value (an address or null), undefined for a missing key.
MapGet(map, leader) == IF leader \in DOMAIN map THEN map[leader] ELSE UNDEFINED

\* Faulty variant: only `tpu_socket !== undefined`, so a null entry passes.
HasTpuSocket_NullPasses(tpu_socket) == tpu_socket # UNDEFINED

\* `tpu_socket !== undefined && tpu_socket !== null`
HasTpuSocket(tpu_socket) == tpu_socket # UNDEFINED /\ tpu_socket # NULL

\* Faulty variant: the leaderSet test is left out.
NotYetSeen_Unchecked(leaderSet, leader) == TRUE

\* `!leaderSet.has(leader.toBase58())`
NotYetSeen(leaderSet, leader) == leader \notin leaderSet

\* `checkedSlots === fanout_slots`: the promise is resolved with the array
\* that the loop goes on filling.
ResolveNow(checkedSlots, fanout_slots) == checkedSlots = fanout_slots

\* The entries `this.leaders.forEach` visits.
Walked(ldrs, fanout_slots) == ldrs

\* Faulty variant of the iteration: unshift instead of push.
WalkStep_Unshift(ldrs, map, fanout_slots, i, acc) ==
    LET leader == ldrs[i]
        tpu_socket == MapGet(map, leader)
        push == tpu_socket # UNDEFINED /\ tpu_socket # NULL /\ leader \notin acc.set
        checked == acc.checked + 1
    IN  [set      |-> IF push THEN acc.set \cup {leader} ELSE acc.set,
         out      |-> IF push THEN <<tpu_socket>> \o acc.out ELSE acc.out,
         checked  |-> checked,
         resolved |-> acc.resolved \/ checked = fanout_slots]

\* One forEach iteration (the body of the callback) on the accumulator
\* acc = [set, out, checked, resolved].
WalkStep(ldrs, map, fanout_slots, i, acc) ==
    LET leader == ldrs[i]
        tpu_socket == MapGet(map, leader)
        push == HasTpuSocket(tpu_socket) /\ NotYetSeen(acc.set, leader)
        checked == acc.checked + 1
    IN  [set      |-> IF push THEN acc.set \cup {leader} ELSE acc.set,
         out      |-> IF push THEN Append(acc.out, tpu_socket) ELSE acc.out,
         checked  |-> checked,
         resolved |-> acc.resolved \/ ResolveNow(checked, fanout_slots)]

\* The iterations lo..hi in order, split in halves to keep the evaluation
\* shallow; the order of the steps is that of forEach.  Every iteration
\* counts one checked slot, so the test on first_half always holds: it only
\* makes the first half be evaluated before the second starts.
RECURSIVE WalkLeaders(_, _, _, _, _, _)
WalkLeaders(ldrs, map, fanout_slots, lo, hi, acc) ==
    IF lo > hi THEN acc
    ELSE IF lo = hi THEN WalkStep(ldrs, map, fanout_slots, lo, acc)
    ELSE LET mid == (lo + hi) \div 2
             first_half == WalkLeaders(ldrs, map, fanout_slots, lo, mid, acc)
         IN  IF first_half.checked = acc.checked + (mid - lo + 1)
             THEN WalkLeaders(ldrs, map, fanout_slots, mid + 1, hi, first_half)
             ELSE first_half

\* What the caller of getLeaderSockets observes: whether the promise resolves
\* and, if so, the array it is handed (the array object as it is when the
\* caller's continuation runs, after forEach has finished).
getLeaderSockets(ldrs, map, fanout_slots) ==
    LET walked == Walked(ldrs, fanout_slots)
        acc == WalkLeaders(walked, map, fanout_slots, 1, Len(walked),
                   [set |-> {}, out |-> <<>>, checked |-> 0, resolved |-> FALSE])
    IN  [resolved |-> acc.resolved, list |-> IF acc.resolved THEN acc.out ELSE <<>>]

\* Faulty variant: one past the last cached slot.
lastSlotOf_Exclusive(fs, ldrs) == fs + Len(ldrs)

lastSlotOf(fs, ldrs) == fs + Len(ldrs) - 1

\* ================================================================= upstream
\* The cluster's leader schedule: the identity producing each slot.
LeaderAt(slot) == (slot % NumLeaders) + 1

\* connection.getSlotLeaders(start, limit): `len` leaders from `start` on,
\* never more than `limit`.
SlotLeadersAnswer(start_slot, limit, len) ==
    [i \in 1..Min(limit, len) |-> LeaderAt(start_slot + i - 1)]

\* Faulty variant: always the maximum, whatever the epoch length.
FanoutRequest_Max(sie) == 2 * MAX_FANOUT_SLOTS

\* fetchSlotLeaders: the number of slots asked for.
FanoutRequest(sie) == Min(2 * MAX_FANOUT_SLOTS, sie)

\* The length of an answer: the full request, or a shorter list.
AnswerLen(limit, short) == IF short THEN Min(limit, MaxSchedule - 1) ELSE limit

\* Answers of getEpochInfo().slotsInEpoch: a test validator and mainnet.
EpochSizes == {MaxSchedule, 432000}

\* Faulty variant: a peer without a TPU address gets no entry.
ClusterMap_DropsNull(nodes) ==
    LET keys == {nodes[i].pubkey : i \in {j \in DOMAIN nodes : nodes[j].tpu # NULL}}
    IN  [p \in keys |-> nodes[CHOOSE i \in DOMAIN nodes : nodes[i].pubkey = p].tpu]

\* fetchClusterTpuSockets: a new Map filled by one pass over a getClusterNodes
\* answer, map.set(contactInfo.pubkey, contactInfo.tpu) for each entry (tpu
\* is an address or null); a later entry for the same pubkey overwrites.
ClusterMap(nodes) ==
    LET keys == {nodes[i].pubkey : i \in DOMAIN nodes}
    IN  [p \in keys |->
            nodes[CHOOSE i \in DOMAIN nodes :
                     /\ nodes[i].pubkey = p
                     /\ \A j \in DOMAIN nodes : nodes[j].pubkey = p => j <= i].tpu]

\* getClusterNodes answers, as lists of contactInfo in gossip order: every
\* peer reachable at its own address (peer 3 and later absent from gossip);
\* peers sharing addresses; peer 1 without a TPU port; nobody with a TPU
\* port.
ClusterAnswers ==
    { [i \in 1..2 |-> [pubkey |-> 3 - i, tpu |-> 3 - i]],
      [i \in 1..NumLeaders |-> [pubkey |-> i, tpu |-> ((i - 1) % 2) + 1]],
      [i \in 1..NumLeaders |->
          [pubkey |-> NumLeaders + 1 - i,
           tpu |-> IF NumLeaders + 1 - i = 1 THEN NULL ELSE 2]],
      [i \in 1..NumLeaders |-> [pubkey |-> i, tpu |-> NULL]] }

\* The contact maps those answers give.
ClusterMaps == {ClusterMap(nodes) : nodes \in ClusterAnswers}

\* ================================================================== sender
\* Faulty variant: the lower bound is not applied.
ClampFanout_NoFloor(n) == Min(n, MAX_FANOUT_SLOTS)

\* Math.max(Math.min(config.fanoutSlots, MAX_FANOUT_SLOTS), 1)
ClampFanout(n) == Max(Min(n, MAX_FANOUT_SLOTS), 1)

\* Faulty variant: the versioned branch does not look at the signers.
ArgsInvalid_LegacyOnly(kind, sg) == kind = "legacy" /\ sg # "signers"

\* The argument checks of sendTransaction: a versioned transaction with a
\* signer array, a legacy transaction without one.
ArgsInvalid(kind, sg) ==
    \/ kind = "versioned" /\ sg = "signers"
    \/ kind = "legacy" /\ sg # "signers"

\* transaction.serialize(): the wire bytes carry the format and signatures.
Serialize(tx) == [format |-> tx.kind, sigs |-> tx.sigs]

\* Transaction.from(raw).signature, else VersionedTransaction.deserialize(raw)
\* .signatures[0]: the first signature of the wire bytes.
FirstSignature(bytes) == bytes.sigs[1]

\* Faulty variant: the last address of the list gets no datagram.
IssueSends_SkipLast(addrs, bytes) ==
    [i \in 1..(Len(addrs) - 1) |-> [to |-> addrs[i], payload |-> bytes]]

\* tpu_addresses.forEach(send): one datagram per entry of the list, in order.
IssueSends(addrs, bytes) == [i \in 1..Len(addrs) |-> [to |-> addrs[i], payload |-> bytes]]

\* Faulty variant: an error reported by any callback overrides the result.
Settle_ErrorWins(result, error, bytes) ==
    IF error THEN [state |-> "rejected:send", sig |-> 0]
    ELSE IF result.state # "pending" THEN result
    ELSE [state |-> "resolved", sig |-> bytes.sigs[1]]

\* Faulty variant: the last callback to complete decides the result.
Settle_LastWins(result, error, bytes) ==
    IF ~error THEN [state |-> "resolved", sig |-> bytes.sigs[1]]
    ELSE [state |-> "rejected:send", sig |-> 0]

\* The send callback: resolve(signature) or reject(error); a promise that is
\* already settled ignores both.
Settle(result, error, bytes) ==
    IF result.state # "pending" THEN result
    ELSE IF ~error THEN [state |-> "resolved", sig |-> FirstSignature(bytes)]
    ELSE [state |-> "rejected:send", sig |-> 0]

NoBytes == [format |-> "none", sigs |-> <<>>]
PendingResult == [state |-> "pending", sig |-> 0]
NoFirst == [i |-> 0, error |-> FALSE]

IdleCall ==
    [pc |-> "idle", api |-> "none", kind |-> "none", sg |-> "none",
     bytes |-> NoBytes, addrs |-> <<>>, datagrams |-> <<>>, pending |-> {},
     handled |-> 0, first |-> NoFirst, failed |-> FALSE, succeeded |-> FALSE,
     result |-> PendingResult,
     rpc |-> 0, lookups |-> 0, k |-> 0]

VARIABLES
    websocket,             \* a push endpoint is configured (websocket_url !== '')
    fanoutSlots,           \* TpuClient.fanoutSlots
    loadPc,                \* position of the load chain
    recent_slots,          \* RecentLeaderSlots.recent_slots, oldest first
    first_slot,            \* LeaderTpuCache.first_slot
    slots_in_epoch,        \* LeaderTpuCache.slots_in_epoch
    last_epoch_info_slot,  \* LeaderTpuCache.last_epoch_info_slot
    leaders,               \* LeaderTpuCache.leaders
    leaderTpuMap,          \* LeaderTpuCache.leaderTpuMap
    subscription,          \* LeaderTpuService.subscription is set
    runPc,                 \* position of the refresh loop
    passEst,               \* estimatedCurrentSlot held by a suspended pass
    call,                  \* the send / sendRaw call under observation
    lookup,                \* the last direct leaderTpuSockets(k) call
    notifCount,            \* slot notifications delivered so far
    notified,              \* the highest slot a notification carried
    configFanout,          \* config.fanoutSlots as given to the constructor
    recorded,              \* every slot pushed onto the window, in arrival order
    estimate,              \* the last estimatedCurrentSlot call: its window and result
    passWarns,             \* the console.warn lines of the current refresh pass
    stopwatch,             \* ms since load / the last contact-map fetch, if measured
    armed                  \* timers set by run() that have not fired yet

cacheVars == <<first_slot, slots_in_epoch, last_epoch_info_slot, leaders, leaderTpuMap>>
configVars == <<websocket, fanoutSlots, configFanout>>
notifVars == <<notifCount, notified>>
passVars == <<estimate, passWarns, stopwatch>>
tpuVars == <<websocket, fanoutSlots, loadPc, recent_slots, first_slot, slots_in_epoch,
             last_epoch_info_slot, leaders, leaderTpuMap, subscription, runPc, passEst,
             call, lookup, notifCount, notified, configFanout, recorded, estimate,
             passWarns, stopwatch, armed>>

\* The application around the client: the transaction executor, the Bot, the
\* listener-driven bot and its Mutex.
VARIABLES
    execs,                 \* the executeAndConfirm calls made so far, in call order
    config,                \* Bot.config
    filters,               \* PoolFilters.filters
    buyMutex,              \* Bot.buyMutex
    tasks,                 \* the proposeBuy invocations
    env,                   \* the listener's settings (constants.ts)
    processingToken,       \* the listener's processingToken flag
    poolTasks,             \* the listener's processRaydiumPool invocations
    walletSells,           \* the wallet notifications so far, and the sells they started
    mutex,                 \* a Mutex: its locked flag and its queue
    lockCalls,             \* the lock(callback) calls on that Mutex
    lockLog                \* what happened on that Mutex, in order

execVars == <<execs>>
botVars == <<config, filters, buyMutex, tasks>>
listenerVars == <<env, processingToken, poolTasks, walletSells>>
mutexVars == <<mutex, lockCalls, lockLog>>
appVars == <<execVars, botVars, listenerVars, mutexVars>>
vars == <<tpuVars, appVars>>

\* No executeAndConfirm call has been made.
ExecutorIdle == execs = <<>>

\* No Bot has been constructed.
BotIdle == config = <<>> /\ filters = <<>> /\ buyMutex = <<>> /\ tasks = <<>>

\* The listener has not been started.
ListenerIdle ==
    env = <<>> /\ processingToken = FALSE /\ poolTasks = <<>> /\ walletSells = <<>>

\* No Mutex is in use.
MutexIdle == mutex = <<>> /\ lockCalls = <<>> /\ lockLog = <<>>

AppIdle == ExecutorIdle /\ BotIdle /\ ListenerIdle /\ MutexIdle

lastSlot == lastSlotOf(first_slot, leaders)
Loaded == loadPc = "loaded"
NoLookup == [k |-> 0, resolved |-> FALSE, list |-> <<>>]
NoEstimate == [window |-> <<>>, value |-> UNDEFINED]

\* The promise returned by load (LeaderTpuCache.load, and LeaderTpuService,
\* TpuClient and TpuConnection.load around it): each is built with a resolve
\* function only and continues its inner promise with `then` alone, so it
\* can be resolved or stay pending, and nothing can reject it.  A rejected
\* query is an unhandled rejection: the runtime reports it or ends the
\* process; the caller of load is handed nothing in either case.
loadResult == IF loadPc = "loaded" THEN "resolved" ELSE "pending"


\* Faulty variant: the pass ends without calling run().
Rearm_Never(n, pc) == n

\* `this.run()` at the end of the timer callback (and in load): where the
\* control state after the step is "timer", run() has been called and has
\* set one more timer.
Rearm(n, pc) == IF pc = "timer" THEN n + 1 ELSE n

\* ==================================================================== load
\* TpuClient.load -> LeaderTpuService.load -> LeaderTpuCache.load: a chain of
\* queries, each continued in a `then` with no rejection handler, so a failed
\* query leaves the promise returned by load pending for ever.
LoadGetSlot(ok, start_slot) ==
    /\ loadPc = "getSlot"
    /\ IF ok
       THEN /\ recent_slots' = <<start_slot>>
            /\ recorded' = <<start_slot>>
            /\ first_slot' = start_slot
            /\ loadPc' = "getEpochInfo"
       ELSE /\ loadPc' = "stuck"
            /\ UNCHANGED <<recent_slots, recorded, first_slot>>
    /\ UNCHANGED <<appVars, configVars, slots_in_epoch, last_epoch_info_slot, leaders, leaderTpuMap,
                   subscription, runPc, passEst, call, lookup, notifVars, passVars, armed>>

LoadEpochInfo(ok, sie) ==
    /\ loadPc = "getEpochInfo"
    /\ IF ok
       THEN slots_in_epoch' = sie /\ loadPc' = "getSlotLeaders"
       ELSE loadPc' = "stuck" /\ UNCHANGED slots_in_epoch
    /\ UNCHANGED <<appVars, configVars, recent_slots, first_slot, last_epoch_info_slot, leaders,
                   leaderTpuMap, subscription, runPc, passEst, call, lookup, notifVars,
                   recorded, passVars, armed>>

LoadSlotLeaders(ok, short) ==
    /\ loadPc = "getSlotLeaders"
    /\ IF ok
       THEN /\ leaders' = LET limit == FanoutRequest(slots_in_epoch)
                          IN  SlotLeadersAnswer(first_slot, limit, AnswerLen(limit, short))
            /\ loadPc' = "getClusterNodes"
       ELSE loadPc' = "stuck" /\ UNCHANGED leaders
    /\ UNCHANGED <<appVars, configVars, recent_slots, first_slot, slots_in_epoch, last_epoch_info_slot,
                   leaderTpuMap, subscription, runPc, passEst, call, lookup, notifVars,
                   recorded, passVars, armed>>

\* The last link also subscribes to slot updates (when a websocket url is
\* given) and calls run(), which arms the first timer.
LoadClusterNodes(ok, nodes) ==
    /\ loadPc = "getClusterNodes"
    /\ IF ok
       THEN /\ leaderTpuMap' = ClusterMap(nodes)
            /\ subscription' = websocket
            /\ runPc' = "timer"
            /\ armed' = Rearm(armed, "timer")
            /\ loadPc' = "loaded"
       ELSE loadPc' = "stuck" /\ UNCHANGED <<leaderTpuMap, subscription, runPc, armed>>
    /\ UNCHANGED <<appVars, configVars, recent_slots, first_slot, slots_in_epoch, last_epoch_info_slot,
                   leaders, passEst, call, lookup, notifVars, recorded, passVars>>

\* ============================================================ notifications
\* Faulty variant: the slot is recorded as announced, whatever the type.
RecordedSlot_AsAnnounced(slot, type) == slot

\* `if (slotUpdate.type === 'completed') slotUpdate.slot++`
RecordedSlot(slot, type) == IF type = "completed" THEN slot + 1 ELSE slot

\* The onSlotUpdate handler: a "completed" update counts as the next slot.
Notify(slot, type) ==
    /\ Loaded /\ subscription
    /\ recent_slots' = recordSlot(recent_slots, RecordedSlot(slot, type))
    /\ recorded' = Append(recorded, RecordedSlot(slot, type))
    /\ notifCount' = notifCount + 1
    /\ notified' = Max(notified, slot)
    /\ UNCHANGED <<appVars, configVars, loadPc, cacheVars, subscription, runPc, passEst, call, lookup,
                   passVars, armed>>

\* ============================================================= refresh loop
\* estimatedCurrentSlot >= last_epoch_info_slot - slots_in_epoch, in
\* JavaScript arithmetic: false when either side is undefined / NaN.
EpochDue(est, leis, sie) ==
    est # UNDEFINED /\ leis # UNDEFINED /\ sie # UNDEFINED /\ est >= leis - sie

\* Faulty variant: every defined estimate triggers a refetch.
LeadersDue_Always(est, last) == est # UNDEFINED

\* estimatedCurrentSlot >= lastSlot() - MAX_FANOUT_SLOTS
LeadersDue(est, last) == est # UNDEFINED /\ est >= last - MAX_FANOUT_SLOTS

\* Date.now() - last_cluster_refresh > 1000 * 5 * 60, where last_cluster_refresh
\* is the time of the run() call that armed this timer.
ClusterDue(elapsed) == elapsed > CLUSTER_REFRESH_MS

\* The stopwatch of an observer who started it when load completed: it runs
\* on while the timers fire and restarts when a contact map is installed.
Tick(sw, ms) == IF sw = UNDEFINED THEN UNDEFINED ELSE sw + ms
Restart(sw) == IF sw = UNDEFINED THEN UNDEFINED ELSE 0

\* The pass from the schedule check on; the epoch fields are the caller's.
FromLeadersCheck(est) ==
    /\ IF LeadersDue(est, lastSlot)
       THEN runPc' = "awaitSlotLeaders" /\ passEst' = est
       ELSE runPc' = "timer" /\ passEst' = UNDEFINED
    /\ UNCHANGED <<first_slot, leaders>>

\* The pass from the estimate on; leaderTpuMap is the caller's.  An empty
\* window makes estimatedCurrentSlot throw inside the timer callback: the
\* pass ends there and run() is not called again.
FromEstimate ==
    IF recent_slots = <<>>
    THEN /\ runPc' = "dead" /\ passEst' = UNDEFINED
         /\ UNCHANGED <<first_slot, slots_in_epoch, last_epoch_info_slot, leaders, estimate>>
    ELSE LET est == estimatedCurrentSlot(recent_slots)
         IN  /\ estimate' = [window |-> recent_slots, value |-> est]
             /\ IF EpochDue(est, last_epoch_info_slot, slots_in_epoch)
                THEN /\ runPc' = "awaitEpochInfo" /\ passEst' = est
                     /\ UNCHANGED <<first_slot, slots_in_epoch, last_epoch_info_slot, leaders>>
                ELSE /\ UNCHANGED <<slots_in_epoch, last_epoch_info_slot>>
                     /\ FromLeadersCheck(est)

\* The timer armed by run() fires `elapsed` ms after run() was called.
TimerFire(elapsed) ==
    /\ Loaded /\ runPc = "timer" /\ armed >= 1
    /\ passWarns' = {}
    /\ stopwatch' = Tick(stopwatch, elapsed)
    /\ IF ClusterDue(elapsed)
       THEN /\ runPc' = "awaitClusterNodes" /\ passEst' = UNDEFINED
            /\ UNCHANGED <<cacheVars, estimate>>
       ELSE UNCHANGED leaderTpuMap /\ FromEstimate
    /\ armed' = Rearm(armed - 1, runPc')
    /\ UNCHANGED <<appVars, configVars, loadPc, recent_slots, subscription, call, lookup, notifVars,
                   recorded>>

\* What the awaited query can answer: a peer list, an epoch size, or a
\* schedule (full, or shorter than asked for).
QueryAnswers ==
    CASE runPc = "awaitClusterNodes" -> ClusterAnswers
      [] runPc = "awaitEpochInfo" -> EpochSizes
      [] runPc = "awaitSlotLeaders" -> BOOLEAN
      [] OTHER -> {}

\* Faulty variant: a failed query clears what it was to replace.
QueryDone_FailClears(ok, ans) ==
    /\ runPc \in {"awaitClusterNodes", "awaitEpochInfo", "awaitSlotLeaders"}
    /\ CASE runPc = "awaitClusterNodes" ->
              /\ leaderTpuMap' = IF ok THEN ClusterMap(ans) ELSE <<>>
              /\ passWarns' = IF ok THEN passWarns ELSE passWarns \cup {"cluster"}
              /\ stopwatch' = IF ok THEN Restart(stopwatch) ELSE stopwatch
              /\ FromEstimate
         [] runPc = "awaitEpochInfo" ->
              /\ slots_in_epoch' = IF ok THEN ans ELSE slots_in_epoch
              /\ last_epoch_info_slot' = IF ok THEN passEst ELSE last_epoch_info_slot
              /\ passWarns' = IF ok THEN passWarns ELSE passWarns \cup {"epoch"}
              /\ UNCHANGED <<leaderTpuMap, estimate, stopwatch>>
              /\ FromLeadersCheck(passEst)
         [] runPc = "awaitSlotLeaders" ->
              /\ IF ok
                 THEN /\ first_slot' = passEst
                      /\ leaders' = LET limit == FanoutRequest(slots_in_epoch)
                                    IN  SlotLeadersAnswer(passEst, limit, AnswerLen(limit, ans))
                 ELSE first_slot' = passEst /\ leaders' = <<>>
              /\ passWarns' = IF ok THEN passWarns ELSE passWarns \cup {"leaders"}
              /\ runPc' = "timer" /\ passEst' = UNDEFINED
              /\ UNCHANGED <<slots_in_epoch, last_epoch_info_slot, leaderTpuMap, estimate,
                             stopwatch>>
    /\ armed' = Rearm(armed, runPc')
    /\ UNCHANGED <<appVars, configVars, loadPc, recent_slots, subscription, call, lookup, notifVars,
                   recorded>>

\* Faulty variant: the start slot installed is a fresh estimate, taken when
\* the schedule query returns.
QueryDone_Reestimate(ok, ans) ==
    /\ runPc \in {"awaitClusterNodes", "awaitEpochInfo", "awaitSlotLeaders"}
    /\ CASE runPc = "awaitClusterNodes" ->
              /\ leaderTpuMap' = IF ok THEN ClusterMap(ans) ELSE leaderTpuMap
              /\ passWarns' = IF ok THEN passWarns ELSE passWarns \cup {"cluster"}
              /\ stopwatch' = IF ok THEN Restart(stopwatch) ELSE stopwatch
              /\ FromEstimate
         [] runPc = "awaitEpochInfo" ->
              /\ slots_in_epoch' = IF ok THEN ans ELSE slots_in_epoch
              /\ last_epoch_info_slot' = IF ok THEN passEst ELSE last_epoch_info_slot
              /\ passWarns' = IF ok THEN passWarns ELSE passWarns \cup {"epoch"}
              /\ UNCHANGED <<leaderTpuMap, estimate, stopwatch>>
              /\ FromLeadersCheck(passEst)
         [] runPc = "awaitSlotLeaders" ->
              /\ IF ok
                 THEN /\ first_slot' = estimatedCurrentSlot(recent_slots)
                      /\ leaders' = LET limit == FanoutRequest(slots_in_epoch)
                                    IN  SlotLeadersAnswer(passEst, limit, AnswerLen(limit, ans))
                 ELSE UNCHANGED <<first_slot, leaders>>
              /\ passWarns' = IF ok THEN passWarns ELSE passWarns \cup {"leaders"}
              /\ runPc' = "timer" /\ passEst' = UNDEFINED
              /\ UNCHANGED <<slots_in_epoch, last_epoch_info_slot, leaderTpuMap, estimate,
                             stopwatch>>
    /\ armed' = Rearm(armed, runPc')
    /\ UNCHANGED <<appVars, configVars, loadPc, recent_slots, subscription, call, lookup, notifVars,
                   recorded>>

\* The query a suspended pass awaits completes (ok, with answer ans) or
\* fails; the pass goes on to its next suspension point or to run().
QueryDone(ok, ans) ==
    /\ runPc \in {"awaitClusterNodes", "awaitEpochInfo", "awaitSlotLeaders"}
    /\ CASE runPc = "awaitClusterNodes" ->
              /\ leaderTpuMap' = IF ok THEN ClusterMap(ans) ELSE leaderTpuMap
              /\ passWarns' = IF ok THEN passWarns ELSE passWarns \cup {"cluster"}
              /\ stopwatch' = IF ok THEN Restart(stopwatch) ELSE stopwatch
              /\ FromEstimate
         [] runPc = "awaitEpochInfo" ->
              /\ slots_in_epoch' = IF ok THEN ans ELSE slots_in_epoch
              /\ last_epoch_info_slot' = IF ok THEN passEst ELSE last_epoch_info_slot
              /\ passWarns' = IF ok THEN passWarns ELSE passWarns \cup {"epoch"}
              /\ UNCHANGED <<leaderTpuMap, estimate, stopwatch>>
              /\ FromLeadersCheck(passEst)
         [] runPc = "awaitSlotLeaders" ->
              /\ IF ok
                 THEN /\ first_slot' = passEst
                      /\ leaders' = LET limit == FanoutRequest(slots_in_epoch)
                                    IN  SlotLeadersAnswer(passEst, limit, AnswerLen(limit, ans))
                 ELSE UNCHANGED <<first_slot, leaders>>
              /\ passWarns' = IF ok THEN passWarns ELSE passWarns \cup {"leaders"}
              /\ runPc' = "timer" /\ passEst' = UNDEFINED
              /\ UNCHANGED <<slots_in_epoch, last_epoch_info_slot, leaderTpuMap, estimate,
                             stopwatch>>
    /\ armed' = Rearm(armed, runPc')
    /\ UNCHANGED <<appVars, configVars, loadPc, recent_slots, subscription, call, lookup, notifVars,
                   recorded>>

\* ================================================================== lookups
\* Faulty variant: the lookup cuts the cached schedule down to k entries.
LeaderSocketsCall_Trims(k) ==
    /\ Loaded
    /\ lookup' = LET r == getLeaderSockets(leaders, leaderTpuMap, k)
                 IN  [k |-> k, resolved |-> r.resolved, list |-> r.list]
    /\ leaders' = SubSeq(leaders, 1, Min(k, Len(leaders)))
    /\ UNCHANGED <<appVars, configVars, loadPc, recent_slots, first_slot, slots_in_epoch,
                   last_epoch_info_slot, leaderTpuMap, subscription, runPc,
                   passEst, call, notifVars, recorded, passVars, armed>>

\* LeaderTpuService.leaderTpuSockets(k), called directly: a pass-through to
\* the cache's getLeaderSockets.
LeaderSocketsCall(k) ==
    /\ Loaded
    /\ lookup' = LET r == getLeaderSockets(leaders, leaderTpuMap, k)
                 IN  [k |-> k, resolved |-> r.resolved, list |-> r.list]
    /\ UNCHANGED <<appVars, configVars, loadPc, recent_slots, cacheVars, subscription, runPc,
                   passEst, call, notifVars, recorded, passVars, armed>>

\* =================================================================== sender
\* `call` is the most recent call of send / sendRaw: the sender keeps no
\* state between calls, so a new call may start at any time.
\* sendRawTransaction: the lookup runs at once on the cache as it is; when its
\* promise resolves, the continuation issues every send before any callback
\* can run.  An unresolved lookup leaves the call pending ("hung").
RawSendFrom(c, bytes) ==
    LET r == getLeaderSockets(leaders, leaderTpuMap, fanoutSlots)
    IN  [c EXCEPT !.bytes = bytes,
                  !.lookups = @ + 1,
                  !.k = fanoutSlots,
                  !.pc = IF r.resolved THEN "sent" ELSE "hung",
                  !.addrs = r.list,
                  !.datagrams = IssueSends(r.list, bytes),
                  !.pending = 1..Len(r.list)]

SendRawTransaction(bytes) ==
    /\ Loaded
    /\ call' = RawSendFrom([IdleCall EXCEPT !.api = "sendRaw"], bytes)
    /\ UNCHANGED <<appVars, configVars, loadPc, recent_slots, cacheVars, subscription, runPc,
                   passEst, lookup, notifVars, recorded, passVars, armed>>

\* sendTransaction(transaction, signersOrOptions): sg is "signers" for an
\* array, "options" for a SendOptions object, "undefined" when absent.
SendTransaction(tx, sg) ==
    /\ Loaded
    /\ LET c == [IdleCall EXCEPT !.api = "send", !.kind = tx.kind, !.sg = sg]
       IN  call' =
             IF ArgsInvalid(tx.kind, sg)
             THEN [c EXCEPT !.pc = "done",
                            !.result = [state |-> "rejected:InvalidArguments", sig |-> 0]]
             ELSE IF tx.kind = "versioned" \/ tx.nonceInfo
             THEN RawSendFrom(c, Serialize(tx))
             ELSE [c EXCEPT !.pc = "blockhash", !.rpc = @ + 1, !.bytes = Serialize(tx)]
    /\ UNCHANGED <<appVars, configVars, loadPc, recent_slots, cacheVars, subscription, runPc,
                   passEst, lookup, notifVars, recorded, passVars, armed>>

\* connection.getRecentBlockhash() completes: sign, serialize, sendRaw; or it
\* fails and the rejection is the result of sendTransaction.
BlockhashDone(ok) ==
    /\ call.pc = "blockhash"
    /\ call' = IF ok THEN RawSendFrom(call, call.bytes)
               ELSE [call EXCEPT !.pc = "done",
                                 !.result = [state |-> "rejected:rpc", sig |-> 0]]
    /\ UNCHANGED <<appVars, configVars, loadPc, recent_slots, cacheVars, subscription, runPc,
                   passEst, lookup, notifVars, recorded, passVars, armed>>

\* The callback of the i-th socket.send fires, with or without an error.
SendCallback(i, error) ==
    /\ call.pc = "sent" /\ i \in call.pending
    /\ call' = [call EXCEPT !.pending = @ \ {i},
                            !.handled = @ + 1,
                            !.first = IF call.handled = 0 THEN [i |-> i, error |-> error] ELSE @,
                            !.failed = @ \/ error,
                            !.succeeded = @ \/ ~error,
                            !.result = Settle(@, error, call.bytes)]
    /\ UNCHANGED <<appVars, configVars, loadPc, recent_slots, cacheVars, subscription, runPc,
                   passEst, lookup, notifVars, recorded, passVars, armed>>


\* ========================================================== specifications
\* Inputs of the environment.
UpdateTypes == {"completed", "firstShredReceived"}
NotifSlots == {StartSlot + 1, StartSlot + FarJump}
TimerDelays == {SLEEP_MS, CLUSTER_REFRESH_MS + 1}
FanoutConfigs == {2, DEFAULT_FANOUT_SLOTS}
Signatures == {7}
RawInputs == {[format |-> f, sigs |-> <<s>>] : f \in {"legacy", "versioned"}, s \in Signatures}
TxInputs == {[kind |-> f, nonceInfo |-> n, sigs |-> <<s>>] :
                f \in {"legacy", "versioned"}, n \in BOOLEAN, s \in Signatures}
SignerArgs == {"undefined", "signers", "options"}
AllMaps == UNION {[D -> Sockets \cup {NULL}] : D \in SUBSET Ids}

\* The service: TpuClient.load has been called, nothing has answered yet.
Init ==
    /\ websocket \in BOOLEAN
    /\ configFanout \in FanoutConfigs
    /\ fanoutSlots = ClampFanout(configFanout)
    /\ loadPc = "getSlot"
    /\ recent_slots = <<>>
    /\ first_slot = UNDEFINED
    /\ slots_in_epoch = UNDEFINED
    /\ last_epoch_info_slot = UNDEFINED
    /\ leaders = <<>>
    /\ leaderTpuMap = <<>>
    /\ subscription = FALSE
    /\ runPc = "unarmed"
    /\ passEst = UNDEFINED
    /\ call = IdleCall
    /\ lookup = NoLookup
    /\ notifCount = 0
    /\ notified = UNDEFINED
    /\ recorded = <<>>
    /\ estimate = NoEstimate
    /\ passWarns = {}
    /\ stopwatch = UNDEFINED
    /\ armed = 0
    /\ AppIdle

Next ==
    \/ \E ok \in BOOLEAN : LoadGetSlot(ok, StartSlot)
    \/ \E ok \in BOOLEAN, sie \in EpochSizes : LoadEpochInfo(ok, sie)
    \/ \E ok \in BOOLEAN, short \in BOOLEAN : LoadSlotLeaders(ok, short)
    \/ \E ok \in BOOLEAN, nodes \in ClusterAnswers : LoadClusterNodes(ok, nodes)
    \/ \E slot \in NotifSlots, type \in UpdateTypes :
          notifCount < MaxNotifs /\ Notify(slot, type)
    \/ \E elapsed \in TimerDelays : TimerFire(elapsed)
    \/ \E ok \in BOOLEAN, ans \in QueryAnswers : QueryDone(ok, ans)
    \/ \E bytes \in RawInputs : SendRawTransaction(bytes)

Spec == Init /\ [][Next]_vars

\* A loaded client over an arbitrary cache: the schedule and the contact map
\* are whatever the upstream answered.
LoadedWith(ldrs, map, k) ==
    /\ websocket = FALSE
    /\ configFanout = k
    /\ fanoutSlots = ClampFanout(k)
    /\ loadPc = "loaded"
    /\ recent_slots = <<StartSlot>>
    /\ first_slot = StartSlot
    /\ slots_in_epoch = Len(ldrs)
    /\ last_epoch_info_slot = UNDEFINED
    /\ leaders = ldrs
    /\ leaderTpuMap = map
    /\ subscription = FALSE
    /\ runPc = "timer"
    /\ passEst = UNDEFINED
    /\ call = IdleCall
    /\ lookup = NoLookup
    /\ notifCount = 0
    /\ notified = UNDEFINED
    /\ recorded = <<StartSlot>>
    /\ estimate = NoEstimate
    /\ passWarns = {}
    /\ stopwatch = UNDEFINED
    /\ armed = 1
    /\ AppIdle

\* getLeaderSockets as a function of the cache and of k.
InitSockets ==
    \E ldrs \in SeqsUpTo(Ids, MaxSchedule), map \in AllMaps : LoadedWith(ldrs, map, 1)

NextSockets ==
    \E k \in (1..(MaxSchedule + 1)) \cup {DEFAULT_FANOUT_SLOTS, MAX_FANOUT_SLOTS} :
        LeaderSocketsCall(k)

SpecSockets == InitSockets /\ [][NextSockets]_vars

\* The sender over an arbitrary cache.
InitSend ==
    \E ldrs \in SeqsUpTo(Ids, MaxSchedule), map \in ClusterMaps,
       k \in 1..(MaxSchedule + 1) : LoadedWith(ldrs, map, k)

NextSend ==
    \/ \E tx \in TxInputs, sg \in SignerArgs : SendTransaction(tx, sg)
    \/ \E ok \in BOOLEAN : BlockhashDone(ok)
    \/ \E bytes \in RawInputs : SendRawTransaction(bytes)
    \/ \E i \in call.pending, error \in BOOLEAN : SendCallback(i, error)

SpecSend == InitSend /\ [][NextSend]_vars

\* The constructor over integer configurations below, inside and above the
\* supported range, followed by sendRaw calls.
ConfigInputs ==
    {0 - 5, 0, 1, 2, DEFAULT_FANOUT_SLOTS, MAX_FANOUT_SLOTS, MAX_FANOUT_SLOTS + 1,
     10 * MAX_FANOUT_SLOTS}

InitClamp ==
    \E ldrs \in SeqsUpTo(Ids, MaxSchedule), map \in ClusterMaps, n \in ConfigInputs :
        LoadedWith(ldrs, map, n)

NextClamp ==
    \/ \E bytes \in RawInputs : SendRawTransaction(bytes)
    \/ \E i \in call.pending, error \in BOOLEAN : SendCallback(i, error)

SpecClamp == InitClamp /\ [][NextClamp]_vars

\* The service with a push endpoint and a healthy upstream: every query
\* succeeds with a full answer, timers fire on time, and the validator
\* announces each slot in turn, first its first shred and then its
\* completion.  The timer, the pending query and the notification stream are
\* each scheduled fairly.
LiveAnswers == IF runPc = "awaitSlotLeaders" THEN {FALSE} ELSE QueryAnswers
NextNotifSlot == StartSlot + 1 + (notifCount \div 2)
NextNotifType == IF notifCount % 2 = 0 THEN "firstShredReceived" ELSE "completed"
LiveSlots == (StartSlot + 1)..(StartSlot + 1 + ((MaxLiveNotifs - 1) \div 2))

LiveLoaded(sw) ==
    /\ websocket = TRUE
    /\ configFanout = 2
    /\ fanoutSlots = ClampFanout(2)
    /\ loadPc = "loaded"
    /\ recent_slots = <<StartSlot>>
    /\ first_slot = StartSlot
    /\ slots_in_epoch = MaxSchedule
    /\ last_epoch_info_slot = UNDEFINED
    /\ leaders = SlotLeadersAnswer(StartSlot, FanoutRequest(MaxSchedule), MaxSchedule)
    /\ leaderTpuMap \in ClusterMaps
    /\ subscription = TRUE
    /\ runPc = "timer"
    /\ passEst = UNDEFINED
    /\ call = IdleCall
    /\ lookup = NoLookup
    /\ notifCount = 0
    /\ notified = UNDEFINED
    /\ recorded = <<StartSlot>>
    /\ estimate = NoEstimate
    /\ passWarns = {}
    /\ stopwatch = sw
    /\ armed = 1
    /\ AppIdle

InitLive == LiveLoaded(UNDEFINED)

LiveNotify == notifCount < MaxLiveNotifs /\ Notify(NextNotifSlot, NextNotifType)
LiveTimer == TimerFire(SLEEP_MS)
LiveQuery == \E ans \in LiveAnswers : QueryDone(TRUE, ans)
NextLive == LiveNotify \/ LiveTimer \/ LiveQuery

SpecLive ==
    InitLive /\ [][NextLive]_vars
    /\ WF_vars(LiveNotify) /\ WF_vars(LiveTimer) /\ WF_vars(LiveQuery)

\* The window under a stream of notifications, each carrying the slot after
\* the start slot or a slot far ahead; the types alternate as in the live
\* stream.
WindowNotify ==
    /\ notifCount < MaxWindowNotifs
    /\ \E slot \in NotifSlots : Notify(slot, NextNotifType)

SpecWindow == InitLive /\ [][WindowNotify]_vars

\* The estimator inside the refresh loop: notifications as above, timers on
\* time, queries that succeed or fail.
EstNotify ==
    /\ notifCount < MaxEstNotifs
    /\ \E slot \in NotifSlots : Notify(slot, NextNotifType)

EstTimer == TimerFire(SLEEP_MS)
EstQuery == \E ok \in BOOLEAN, ans \in QueryAnswers : QueryDone(ok, ans)
NextEstimate == EstNotify \/ EstTimer \/ EstQuery

SpecEstimate == InitLive /\ [][NextEstimate]_vars

\* The service observed with a stopwatch started when load completed: a
\* healthy upstream, every timer firing on time, for a little over five
\* minutes of passes.
ClockTimer == stopwatch < MaxPasses * SLEEP_MS /\ TimerFire(SLEEP_MS)
ClockQuery == \E ans \in LiveAnswers : QueryDone(TRUE, ans)
NextClock == ClockTimer \/ ClockQuery

SpecClock == LiveLoaded(0) /\ [][NextClock]_vars

\* The refresh loop under fair scheduling: an armed timer eventually fires
\* (on time or late) and an awaited query eventually completes, successfully
\* or not; notifications arrive as above.
LoopTimer == \E e \in TimerDelays : TimerFire(e)
NextLoop == EstNotify \/ LoopTimer \/ EstQuery

SpecLoop ==
    InitLive /\ [][NextLoop]_vars /\ WF_vars(LoopTimer) /\ WF_vars(EstQuery)

\* Everything at once: the refresh loop with on-time and late timers and
\* failing queries, notifications, direct lookups and both send calls with
\* their callbacks, in every interleaving.
FrameNotify ==
    /\ notifCount < MaxFrameNotifs
    /\ \E slot \in NotifSlots : Notify(slot, NextNotifType)

FrameLookup == \E k \in {fanoutSlots} : LeaderSocketsCall(k)
FrameTxInputs == {tx \in TxInputs : tx.kind = "legacy" /\ ~tx.nonceInfo}
FrameRawInputs == {b \in RawInputs : b.format = "versioned"}

NextFrame ==
    \/ FrameNotify
    \/ LoopTimer
    \/ EstQuery
    \/ FrameLookup
    \/ \E tx \in FrameTxInputs : SendTransaction(tx, "signers")
    \/ \E ok \in BOOLEAN : BlockhashDone(ok)
    \/ \E bytes \in FrameRawInputs : SendRawTransaction(bytes)
    \/ \E i \in call.pending, error \in BOOLEAN : SendCallback(i, error)

SpecFrame == InitLive /\ [][NextFrame]_vars

\* The refresh loop under notifications that arrive out of order: each
\* carries the slot after the start slot or a slot a fork ahead of it, less
\* than the length of the refresh margin away.
ReorderSlots == {StartSlot + 1, StartSlot + NearJump}

ReorderNotify ==
    /\ notifCount < MaxEstNotifs
    /\ \E slot \in ReorderSlots : Notify(slot, NextNotifType)

NextReorder == ReorderNotify \/ EstTimer \/ EstQuery

SpecReorder == InitLive /\ [][NextReorder]_vars

\* ================================================= TPUTransactionExecutor
\* The client as the executor creates it: TpuConnection.load(endpoint,
\* commitment) passes neither a websocket url nor a config, and nothing has
\* answered yet.
TpuUnloaded ==
    /\ websocket = FALSE
    /\ configFanout = DEFAULT_FANOUT_SLOTS
    /\ fanoutSlots = ClampFanout(DEFAULT_FANOUT_SLOTS)
    /\ loadPc = "getSlot"
    /\ recent_slots = <<>>
    /\ first_slot = UNDEFINED
    /\ slots_in_epoch = UNDEFINED
    /\ last_epoch_info_slot = UNDEFINED
    /\ leaders = <<>>
    /\ leaderTpuMap = <<>>
    /\ subscription = FALSE
    /\ runPc = "unarmed"
    /\ passEst = UNDEFINED
    /\ call = IdleCall
    /\ lookup = NoLookup
    /\ notifCount = 0
    /\ notified = UNDEFINED
    /\ recorded = <<>>
    /\ estimate = NoEstimate
    /\ passWarns = {}
    /\ stopwatch = UNDEFINED
    /\ armed = 0

\* One executeAndConfirm call: where it stands, the state of the
\* TpuConnection it loads (each with its own TpuClient, LeaderTpuService,
\* cache and estimator), the timers that service has armed, the refresh
\* passes it has started, the queries the pass now suspended has awaited
\* (0: no pass is suspended), and the result handed back.
NewExec ==
    [pc |-> "load", service |-> "loading", timers |-> 0, passes |-> 0,
     awaited |-> 0, confirmed |-> UNDEFINED]

\* The queries one refresh pass can await: getClusterNodes, getEpochInfo
\* and getSlotLeaders, each only when it is due.
MaxPassQueries == 3

\* executeAndConfirm is called: `await TpuConnection.load(...)` starts
\* loading a connection of its own for this call.
ExecuteAndConfirm ==
    /\ Len(execs) < MaxExecs
    /\ execs' = Append(execs, NewExec)
    /\ UNCHANGED <<tpuVars, botVars, listenerVars, mutexVars>>

\* The load chain of call i ends: on success the service has called run(),
\* which armed its first timer, and the call goes on to send; a failed query
\* leaves the load promise pending and the call suspended on it.
ExecLoaded(i, ok) ==
    /\ i \in 1..Len(execs) /\ execs[i].pc = "load" /\ execs[i].service = "loading"
    /\ execs' = IF ok
                THEN [execs EXCEPT ![i].service = "running",
                                   ![i].timers = Rearm(0, "timer"),
                                   ![i].pc = "send"]
                ELSE [execs EXCEPT ![i].service = "stuck"]
    /\ UNCHANGED <<tpuVars, botVars, listenerVars, mutexVars>>

\* sendRawTransaction of call i settles: with the signature, or with the
\* error of the first send callback.
ExecSent(i, error) ==
    /\ i \in 1..Len(execs) /\ execs[i].pc = "send"
    /\ execs' = [execs EXCEPT ![i].pc = IF error THEN "threw" ELSE "confirm"]
    /\ UNCHANGED <<tpuVars, botVars, listenerVars, mutexVars>>

\* What connection.confirmTransaction can do: answer without an error,
\* answer with one, or reject (block height exceeded, a failed request).
ConfirmOutcomes == {"confirmed", "error", "threw"}

\* confirmTransaction settles: on an answer the call returns
\* { confirmed: !err }; a rejection passes through confirm and
\* executeAndConfirm, neither of which catches it.
ExecConfirmed(i, outcome) ==
    /\ i \in 1..Len(execs) /\ execs[i].pc = "confirm"
    /\ execs' = IF outcome = "threw"
                THEN [execs EXCEPT ![i].pc = "threw"]
                ELSE [execs EXCEPT ![i].pc = "returned",
                                   ![i].confirmed = (outcome = "confirmed")]
    /\ UNCHANGED <<tpuVars, botVars, listenerVars, mutexVars>>

\* A timer of the service loaded by call i fires and the pass starts.  When
\* no query is due the pass runs through to run(), which arms the next
\* timer; when one is due (the contact map after five minutes, the epoch
\* information, the schedule near its end) the pass is suspended on it with
\* no timer armed.  Nothing in executeAndConfirm, and no method of the
\* service, clears a timer.
ExecLoopPass(i, due) ==
    /\ i \in 1..Len(execs) /\ execs[i].service = "running" /\ execs[i].timers >= 1
    /\ execs[i].passes < MaxLoopPasses
    /\ execs' = [execs EXCEPT
                   ![i].timers = Rearm(execs[i].timers - 1, IF due THEN "await" ELSE "timer"),
                   ![i].awaited = IF due THEN 1 ELSE 0,
                   ![i].passes = execs[i].passes + 1]
    /\ UNCHANGED <<tpuVars, botVars, listenerVars, mutexVars>>

\* The query a suspended pass of service i awaits is answered, or fails
\* (the catch blocks only warn): the pass goes on to the next query that is
\* due (more) or to run(), which arms the next timer.  A query that is never
\* answered leaves the pass suspended and the loop without a timer.
ExecQueryDone(i, more) ==
    /\ i \in 1..Len(execs) /\ execs[i].service = "running" /\ execs[i].awaited >= 1
    /\ more => execs[i].awaited < MaxPassQueries
    /\ execs' = [execs EXCEPT
                   ![i].timers = Rearm(execs[i].timers, IF more THEN "await" ELSE "timer"),
                   ![i].awaited = IF more THEN execs[i].awaited + 1 ELSE 0]
    /\ UNCHANGED <<tpuVars, botVars, listenerVars, mutexVars>>

InitExecutor == TpuUnloaded /\ ExecutorIdle /\ BotIdle /\ ListenerIdle /\ MutexIdle

NextExecutor ==
    \/ ExecuteAndConfirm
    \/ \E i \in 1..MaxExecs, ok \in BOOLEAN : ExecLoaded(i, ok)
    \/ \E i \in 1..MaxExecs, error \in BOOLEAN : ExecSent(i, error)
    \/ \E i \in 1..MaxExecs, outcome \in ConfirmOutcomes : ExecConfirmed(i, outcome)
    \/ \E i \in 1..MaxExecs, due \in BOOLEAN : ExecLoopPass(i, due)
    \/ \E i \in 1..MaxExecs, more \in BOOLEAN : ExecQueryDone(i, more)

SpecExecutor == InitExecutor /\ [][NextExecutor]_vars

\* ==================================================================== Bot
\* The proposeBuy invocations and the pools they are about.
Tasks == 1..MaxTasks
Pools == {1, 2}

\* What an evaluation can answer: one ok per filter called, none when the
\* list was empty.
FilterAnswers == {<<>>} \cup SeqsUpTo(BOOLEAN, 2)

\* async-mutex, as Bot uses it.  acquire() takes a free mutex at once and
\* queues the caller behind a taken one; release() has no notion of an
\* owner: on a taken mutex it passes the lock to the first queued caller, or
\* frees it when nobody is queued, and on a free mutex it does nothing.
NewMutex == [locked |-> FALSE, queue |-> <<>>]

MutexAcquire(m, t) ==
    IF m.locked THEN [m EXCEPT !.queue = Append(@, t)] ELSE [m EXCEPT !.locked = TRUE]

MutexRelease(m) ==
    IF ~m.locked THEN m
    ELSE IF m.queue # <<>> THEN [m EXCEPT !.queue = Tail(@)]
    ELSE [m EXCEPT !.locked = FALSE]

\* The caller a release() resumes, 0 if none.
Granted(m) == IF m.locked /\ m.queue # <<>> THEN Head(m.queue) ELSE 0

\* A proposeBuy invocation before it is called.
NewTask ==
    [pc |-> "idle", pool |-> 0, snap |-> <<>>, timesChecked |-> 0, matchCount |-> 0,
     evals |-> <<>>, oks |-> {}, approved |-> "none", delay |-> "none", i |-> 0,
     swaps |-> 0, outcomes |-> <<>>, bought |-> "none", result |-> "none"]

\* PoolFilters.execute after its Promise.all: `this.filters.filter((f, i) =>
\* !passed[i])` runs over the list as it is now with the results of the
\* list as it was when the evaluation started; a position without a result
\* is kept.
RemainingFilters(fs, passed) ==
    KeepPositionsOf(fs, {i \in 1..Len(fs) : i > Len(passed) \/ ~passed[i]})

\* `passed.every((p) => p)`; an evaluation started on an empty list returns
\* true without calling a filter.
AllPassed(passed) == \A i \in 1..Len(passed) : passed[i]

\* Faulty variant: the loop runs once more when the count equals the quotient.
MoreChecks_Inclusive(timesChecked, interval, duration) == timesChecked * interval <= duration

\* `timesChecked < timesToCheck`, timesToCheck being the floating-point
\* quotient filterCheckDuration / filterCheckInterval of a positive interval.
MoreChecks(timesChecked, interval, duration) == timesChecked * interval < duration

\* Faulty variant: an attempt that throws is the last one.
NextAttempt_ThrowEnds(i, outcome, maxBuyRetries) ==
    IF outcome = "threw" THEN maxBuyRetries ELSE i + 1

\* The `i++` of the retry loop, taken after an unconfirmed result and after
\* the catch block alike.
NextAttempt(i, outcome, maxBuyRetries) == i + 1

\* The end of proposeBuy, through `finally`: with oneTokenAtATime the
\* invocation releases buyMutex, whether or not it had acquired it, and the
\* `return true` of the finally block replaces every earlier return value.
Finish(t, rec) ==
    LET g == IF config.oneTokenAtATime THEN Granted(buyMutex) ELSE 0
    IN  /\ tasks' = [u \in Tasks |->
                       IF u = t THEN [rec EXCEPT !.pc = "returned", !.result = "true"]
                       ELSE IF u = g THEN [tasks[u] EXCEPT !.pc = "acquired"]
                       ELSE tasks[u]]
        /\ buyMutex' = IF config.oneTokenAtATime THEN MutexRelease(buyMutex) ELSE buyMutex

\* proposeBuy after an approval: with oneTokenAtATime it acquires buyMutex
\* (at once, or queued); without it, it calls buy(), which runs up to its
\* first await.
Enter(t, rec) ==
    IF config.oneTokenAtATime
    THEN /\ tasks' = [tasks EXCEPT ![t] =
                        [rec EXCEPT !.approved = "true",
                                    !.pc = IF buyMutex.locked THEN "queued" ELSE "acquired"]]
         /\ buyMutex' = MutexAcquire(buyMutex, t)
    ELSE /\ tasks' = [tasks EXCEPT ![t] = [rec EXCEPT !.approved = "true", !.pc = "ata"]]
         /\ UNCHANGED buyMutex

\* approveToken has settled with `approved`.  Behind `Promise.all([
\* approveToken, sleep(autoBuyDelay)])` proposeBuy goes on only when the
\* timer has fired too: until then it stays suspended with the answer.
\* Then `if (!approved) return false`, or the acquire and buy().
Approved(t, rec, approved) ==
    IF rec.delay = "pending"
    THEN /\ tasks' = [tasks EXCEPT ![t] =
                        [rec EXCEPT !.pc = "delay",
                                    !.approved = IF approved THEN "true" ELSE "false"]]
         /\ UNCHANGED buyMutex
    ELSE IF approved THEN Enter(t, rec)
         ELSE Finish(t, [rec EXCEPT !.approved = "false"])

\* filterMatch starts an evaluation: poolFilters.execute reads the list.
Evaluate(t, rec) ==
    /\ tasks' = [tasks EXCEPT ![t] = [rec EXCEPT !.pc = "execute", !.snap = filters]]
    /\ UNCHANGED buyMutex

\* proposeBuy(accountId, poolState) is called for a pool; inList is the
\* answer of the snipe list.
ProposeBuy(t, pool, inList) ==
    /\ tasks # <<>> /\ tasks[t].pc = "idle"
    /\ IF config.useSnipeList /\ ~inList
       THEN Finish(t, [tasks[t] EXCEPT !.pool = pool])
       ELSE /\ tasks' = [tasks EXCEPT ![t].pool = pool, ![t].pc = "market"]
            /\ UNCHANGED buyMutex
    /\ UNCHANGED <<tpuVars, execVars, listenerVars, mutexVars, config, filters>>

\* marketStorage.get answers or throws.  On an answer approveToken is
\* called, next to the autoBuyDelay timer when autoBuyDelay > 0, and runs
\* up to the first evaluation of filterMatch; with the snipe list on or
\* the checks off it returns true at once.
MarketDone(t, ok) ==
    /\ tasks # <<>> /\ tasks[t].pc = "market"
    /\ IF ~ok
       THEN Finish(t, tasks[t])
       ELSE LET rec == [tasks[t] EXCEPT
                         !.delay = IF config.autoBuyDelay > 0 THEN "pending" ELSE "none"]
            IN  IF config.useSnipeList
                   \/ config.filterCheckInterval = 0 \/ config.filterCheckDuration = 0
                THEN Approved(t, rec, TRUE)
                ELSE Evaluate(t, rec)
    /\ UNCHANGED <<tpuVars, execVars, listenerVars, mutexVars, config, filters>>

\* The evaluation of invocation t completes: passed[i] is the ok of the
\* i-th filter it called.
ExecuteDone(t, passed) ==
    /\ tasks # <<>> /\ tasks[t].pc = "execute"
    /\ Len(passed) = Len(tasks[t].snap)
    /\ LET snap == tasks[t].snap
           shouldBuy == AllPassed(passed)
           count == IF shouldBuy THEN tasks[t].matchCount + 1 ELSE 0
           rec == [tasks[t] EXCEPT
                     !.snap = <<>>,
                     !.evals = Append(@, shouldBuy),
                     !.oks = @ \cup {snap[i] : i \in {j \in 1..Len(snap) : passed[j]}},
                     !.matchCount = count]
       IN  /\ filters' = IF snap = <<>> THEN filters ELSE RemainingFilters(filters, passed)
           /\ IF shouldBuy /\ config.consecutiveMatchCount <= count
              THEN Approved(t, [rec EXCEPT !.timesChecked = @ + 1], TRUE)
              ELSE /\ tasks' = [tasks EXCEPT ![t] = [rec EXCEPT !.pc = "sleep"]]
                   /\ UNCHANGED buyMutex
    /\ UNCHANGED <<tpuVars, execVars, listenerVars, mutexVars, config>>

\* The sleep between two evaluations ends: `timesChecked++`, then the loop
\* test; when it fails filterMatch, and with it approveToken, returns false.
SleepDone(t) ==
    /\ tasks # <<>> /\ tasks[t].pc = "sleep"
    /\ LET rec == [tasks[t] EXCEPT !.timesChecked = @ + 1]
       IN  IF MoreChecks(rec.timesChecked, config.filterCheckInterval,
                         config.filterCheckDuration)
           THEN Evaluate(t, rec)
           ELSE Approved(t, rec, FALSE)
    /\ UNCHANGED <<tpuVars, execVars, listenerVars, mutexVars, config, filters>>

\* The autoBuyDelay timer of invocation t fires.  When approveToken has
\* settled already proposeBuy resumes with its answer; otherwise it goes on
\* waiting for approveToken alone.
DelayDone(t) ==
    /\ tasks # <<>> /\ tasks[t].delay = "pending"
    /\ LET rec == [tasks[t] EXCEPT !.delay = "fired"]
       IN  IF rec.pc = "delay"
           THEN Approved(t, rec, rec.approved = "true")
           ELSE tasks' = [tasks EXCEPT ![t] = rec] /\ UNCHANGED buyMutex
    /\ UNCHANGED <<tpuVars, execVars, listenerVars, mutexVars, config, filters>>

\* An invocation holding buyMutex resumes: sellMutex.waitForUnlock() (no
\* sell is running) and the call of buy(), up to its first await.
LockResumed(t) ==
    /\ tasks # <<>> /\ tasks[t].pc = "acquired"
    /\ tasks' = [tasks EXCEPT ![t].pc = "ata"]
    /\ UNCHANGED <<tpuVars, execVars, listenerVars, mutexVars, config, filters, buyMutex>>

\* getAssociatedTokenAddress answers or throws; on an answer the retry loop
\* starts with its first swap, if maxBuyRetries allows one.
AtaDone(t, ok) ==
    /\ tasks # <<>> /\ tasks[t].pc = "ata"
    /\ IF ~ok
       THEN Finish(t, [tasks[t] EXCEPT !.bought = "threw"])
       ELSE IF 0 < config.maxBuyRetries
            THEN /\ tasks' = [tasks EXCEPT ![t].pc = "swap", ![t].swaps = @ + 1]
                 /\ UNCHANGED buyMutex
            ELSE Finish(t, [tasks[t] EXCEPT !.bought = "false"])
    /\ UNCHANGED <<tpuVars, execVars, listenerVars, mutexVars, config, filters>>

\* The swap of the current attempt ends: confirmed, unconfirmed, or with an
\* exception.
SwapDone(t, outcome) ==
    /\ tasks # <<>> /\ tasks[t].pc = "swap"
    /\ LET rec == [tasks[t] EXCEPT !.outcomes = Append(@, outcome)]
       IN  IF outcome = "confirmed"
           THEN Finish(t, [rec EXCEPT !.bought = "true"])
           ELSE LET i == NextAttempt(rec.i, outcome, config.maxBuyRetries)
                IN  IF i < config.maxBuyRetries
                    THEN /\ tasks' = [tasks EXCEPT ![t] = [rec EXCEPT !.i = i, !.swaps = @ + 1]]
                         /\ UNCHANGED buyMutex
                    ELSE Finish(t, [rec EXCEPT !.i = i, !.bought = "false"])
    /\ UNCHANGED <<tpuVars, execVars, listenerVars, mutexVars, config, filters>>

SwapOutcomes == {"confirmed", "unconfirmed", "threw"}

\* A Bot constructed with configuration cfg and the filters fs.
BotWith(cfg, fs) ==
    /\ TpuUnloaded /\ ExecutorIdle /\ ListenerIdle /\ MutexIdle
    /\ config = cfg
    /\ filters = fs
    /\ buyMutex = NewMutex
    /\ tasks = [t \in Tasks |-> NewTask]

NextBot ==
    \/ \E t \in Tasks, pool \in Pools, inList \in BOOLEAN : ProposeBuy(t, pool, inList)
    \/ \E t \in Tasks, ok \in BOOLEAN : MarketDone(t, ok)
    \/ \E t \in Tasks, passed \in FilterAnswers : ExecuteDone(t, passed)
    \/ \E t \in Tasks : SleepDone(t)
    \/ \E t \in Tasks : DelayDone(t)
    \/ \E t \in Tasks : LockResumed(t)
    \/ \E t \in Tasks, ok \in BOOLEAN : AtaDone(t, ok)
    \/ \E t \in Tasks, outcome \in SwapOutcomes : SwapDone(t, outcome)

\* config.autoBuyDelay, in ms: off, or a wait before the buy.
AutoBuyDelays == {0, 50}

\* oneTokenAtATime: three invocations, one filter, one evaluation, one attempt.
InitBuyMutex ==
    \E snipe \in BOOLEAN, delay \in AutoBuyDelays :
        BotWith([oneTokenAtATime |-> TRUE, useSnipeList |-> snipe, autoBuyDelay |-> delay,
                 filterCheckInterval |-> 1, filterCheckDuration |-> 1,
                 consecutiveMatchCount |-> 1, maxBuyRetries |-> 1],
                <<"poolSize">>)

SpecBuyMutex == InitBuyMutex /\ [][NextBot]_vars

\* Filter checking: the snipe list off, two filters configured, up to two
\* evaluations per approval, one buy attempt.
FilterSetup == <<"burn", "poolSize">>

InitFilters ==
    \E one \in BOOLEAN, delay \in AutoBuyDelays :
        BotWith([oneTokenAtATime |-> one, useSnipeList |-> FALSE, autoBuyDelay |-> delay,
                 filterCheckInterval |-> 1, filterCheckDuration |-> 2,
                 consecutiveMatchCount |-> 1, maxBuyRetries |-> 1],
                FilterSetup)

\* Two approvals, each for a pool of its own.
FilterTasks == 1..2

NextFilters ==
    \/ \E t \in FilterTasks : ProposeBuy(t, t, FALSE)
    \/ \E t \in FilterTasks, ok \in BOOLEAN : MarketDone(t, ok)
    \/ \E t \in FilterTasks, passed \in FilterAnswers : ExecuteDone(t, passed)
    \/ \E t \in FilterTasks : SleepDone(t)
    \/ \E t \in FilterTasks : DelayDone(t)
    \/ \E t \in FilterTasks : LockResumed(t)
    \/ \E t \in FilterTasks, ok \in BOOLEAN : AtaDone(t, ok)
    \/ \E t \in FilterTasks, outcome \in SwapOutcomes : SwapDone(t, outcome)

SpecFilters == InitFilters /\ [][NextFilters]_vars

\* filterMatch over check intervals and durations (0 switches the checks
\* off) and over the number of consecutive matches asked for.
CheckIntervals == {0, 1, 2}
CheckDurations == {0, 1, 3}
MatchCounts == {1, 2}

InitFilterMatch ==
    \E one \in BOOLEAN, interval \in CheckIntervals, duration \in CheckDurations,
       count \in MatchCounts, delay \in AutoBuyDelays :
        BotWith([oneTokenAtATime |-> one, useSnipeList |-> FALSE, autoBuyDelay |-> delay,
                 filterCheckInterval |-> interval, filterCheckDuration |-> duration,
                 consecutiveMatchCount |-> count, maxBuyRetries |-> 1],
                FilterSetup)

SpecFilterMatch == InitFilterMatch /\ [][NextFilters]_vars

\* buy() over retry limits, behind one filter evaluated once.
RetryLimits == 0..3

InitBuy ==
    \E one \in BOOLEAN, retries \in RetryLimits, delay \in AutoBuyDelays :
        BotWith([oneTokenAtATime |-> one, useSnipeList |-> FALSE, autoBuyDelay |-> delay,
                 filterCheckInterval |-> 1, filterCheckDuration |-> 1,
                 consecutiveMatchCount |-> 1, maxBuyRetries |-> retries],
                <<"poolSize">>)

SpecBuy == InitBuy /\ [][NextFilters]_vars

\* PoolFilters.retrieve() is called: every filter of the list is asked for
\* its next update, and the call waits for the first that answers;
\* Promise.any over an empty list rejects at once.
Retrieve(t) ==
    /\ tasks # <<>> /\ tasks[t].pc = "idle"
    /\ tasks' = [tasks EXCEPT ![t] =
                   IF filters = <<>>
                   THEN [@ EXCEPT !.pc = "returned", !.result = "threw"]
                   ELSE [@ EXCEPT !.pc = "retrieve", !.snap = filters]]
    /\ UNCHANGED <<tpuVars, execVars, listenerVars, mutexVars, config, filters, buyMutex>>

\* `this.filters.splice(index, 1)`, index counted from 0: the entry at that
\* position of the list as it is now is removed, if there is one.
Splice(fs, index) == KeepPositionsOf(fs, (1..Len(fs)) \ {index + 1})

\* The first answer of a retrieve() call arrives, from the filter that was
\* at position `index` when the call was made, with result.ok = ok.  retire:
\* an answer so far carried listenerStopped.  listening: listen() has set
\* poolKeys; without it the trace line after the splice throws.
RetrieveDone(t, index, ok, retire, listening) ==
    /\ tasks # <<>> /\ tasks[t].pc = "retrieve"
    /\ index \in 0..(Len(tasks[t].snap) - 1)
    /\ filters' = IF ~retire /\ ok THEN Splice(filters, index) ELSE filters
    /\ tasks' = [tasks EXCEPT ![t] =
                   [@ EXCEPT !.pc = "returned", !.snap = <<>>,
                             !.result = IF retire THEN "retired"
                                        ELSE IF ~listening THEN "threw"
                                        ELSE IF filters' = <<>> THEN "pass"
                                        ELSE "continue"]]
    /\ UNCHANGED <<tpuVars, execVars, listenerVars, mutexVars, config, buyMutex>>

\* Bot itself never calls retrieve(); here a third party calls it on the
\* PoolFilters of a Bot that is checking two pools.
RetrieveTasks == {3}

NextRetrieve ==
    \/ NextFilters
    \/ \E t \in RetrieveTasks : Retrieve(t)
    \/ \E t \in RetrieveTasks, index \in 0..1, ok \in BOOLEAN, retire \in BOOLEAN,
          listening \in BOOLEAN : RetrieveDone(t, index, ok, retire, listening)

SpecRetrieve == InitFilters /\ [][NextRetrieve]_vars

\* ================================================================== Mutex
\* The callers of lock(callback).
Lockers == 1..MaxLockers

\* Faulty variant: the flag is cleared also when the lock is handed over.
HandedOver_Unlocks(locked) == FALSE

\* `if (res) res(); else this.locked = false`: the flag is left as it is
\* when a waiter is resumed.
HandedOver(locked) == locked

\* Faulty variant: the waiter taken is the one that queued last.
TakeWaiter_Last(queue) ==
    [who |-> queue[Len(queue)], rest |-> SubSeq(queue, 1, Len(queue) - 1)]

\* `this.queue.shift()` on a non-empty queue.
TakeWaiter(queue) == [who |-> Head(queue), rest |-> Tail(queue)]

\* `this.locked = true; await callback(this.queue.length == 0)`: the
\* callback starts.
StartCallback(c) ==
    /\ mutex' = [mutex EXCEPT !.locked = TRUE]
    /\ lockCalls' = [lockCalls EXCEPT ![c] = [pc |-> "running",
                                             lastInQueue |-> mutex.queue = <<>>]]
    /\ lockLog' = Append(lockLog, [ev |-> "start", c |-> c])

\* lock(callback) up to its first await: behind a set flag the caller
\* queues its resolver and waits; otherwise its callback starts at once.
LockCall(c) ==
    /\ lockCalls # <<>> /\ lockCalls[c].pc = "idle"
    /\ IF mutex.locked
       THEN /\ mutex' = [mutex EXCEPT !.queue = Append(@, c)]
            /\ lockCalls' = [lockCalls EXCEPT ![c].pc = "waiting"]
            /\ lockLog' = Append(lockLog, [ev |-> "wait", c |-> c])
       ELSE StartCallback(c)

\* lock(callback) is called.
Lock(c) ==
    /\ LockCall(c)
    /\ UNCHANGED <<tpuVars, execVars, botVars, listenerVars>>

\* A waiter whose resolver was called resumes after its await.
Resume(c) ==
    /\ lockCalls # <<>> /\ lockCalls[c].pc = "resuming"
    /\ StartCallback(c)
    /\ UNCHANGED <<tpuVars, execVars, botVars, listenerVars>>

\* The callback of c completes: it returns or it throws.
CallbackDone(c, threw) ==
    /\ lockCalls # <<>> /\ lockCalls[c].pc = "running"
    /\ lockCalls' = [lockCalls EXCEPT ![c].pc = IF threw THEN "rejected" ELSE "resolved"]
    /\ lockLog' = Append(lockLog, [ev |-> IF threw THEN "throw" ELSE "end", c |-> c])
    /\ UNCHANGED <<tpuVars, execVars, botVars, listenerVars, mutex>>

\* lock resumes after `await callback(...)` in its finally block: the first
\* waiter is taken off the queue and resumed, or the flag is cleared.
Release(c) ==
    /\ lockCalls # <<>> /\ lockCalls[c].pc \in {"resolved", "rejected"}
    /\ IF mutex.queue # <<>>
       THEN LET w == TakeWaiter(mutex.queue)
            IN  /\ mutex' = [locked |-> HandedOver(mutex.locked), queue |-> w.rest]
                /\ lockCalls' = [lockCalls EXCEPT
                                   ![c].pc = IF lockCalls[c].pc = "rejected"
                                             THEN "threw" ELSE "returned",
                                   ![w.who].pc = "resuming"]
                /\ lockLog' = Append(lockLog, [ev |-> "handover", c |-> w.who])
       ELSE /\ mutex' = [mutex EXCEPT !.locked = FALSE]
            /\ lockCalls' = [lockCalls EXCEPT
                               ![c].pc = IF lockCalls[c].pc = "rejected"
                                         THEN "threw" ELSE "returned"]
            /\ lockLog' = Append(lockLog, [ev |-> "unlock", c |-> c])
    /\ UNCHANGED <<tpuVars, execVars, botVars, listenerVars>>

\* `new Mutex()`, and callers that have not called lock yet.
NewSaveMutex ==
    /\ mutex = [locked |-> FALSE, queue |-> <<>>]
    /\ lockCalls = [c \in Lockers |-> [pc |-> "idle", lastInQueue |-> FALSE]]
    /\ lockLog = <<>>

InitMutex == TpuUnloaded /\ ExecutorIdle /\ BotIdle /\ ListenerIdle /\ NewSaveMutex

LockStep == \E c \in Lockers : Lock(c)
ResumeStep == \E c \in Lockers : Resume(c)
CallbackStep == \E c \in Lockers, threw \in BOOLEAN : CallbackDone(c, threw)
ReleaseStep == \E c \in Lockers : Release(c)

NextMutex == LockStep \/ ResumeStep \/ CallbackStep \/ ReleaseStep

SpecMutex == InitMutex /\ [][NextMutex]_vars

\* Every callback terminates, and a continuation that is ready to run does.
SpecMutexFair ==
    InitMutex /\ [][NextMutex]_vars
    /\ WF_vars(ResumeStep) /\ WF_vars(CallbackStep) /\ WF_vars(ReleaseStep)

\* ================================================== listener-driven bot
\* The pools the Raydium subscription announces.
ListenedPools == 1..MaxPools

\* `USE_SNIPE_LIST ? snipeList.includes(key)
\*                 : ONE_TOKEN_AT_A_TIME ? !processingToken : true`
shouldBuy(inList) ==
    IF env.useSnipeList THEN inList
    ELSE IF env.oneTokenAtATime THEN ~processingToken ELSE TRUE

\* The catch block of buy(): the flag is cleared and buy() returns.
BuyFailed(p) ==
    /\ processingToken' = FALSE
    /\ poolTasks' = [poolTasks EXCEPT ![p] = "failed"]

\* The subscription callback for a pool opened after start and not seen
\* before, and processRaydiumPool up to its first await: shouldBuy, the
\* pool-size limits (sizeOk: the pool is within them), then the mint check
\* or, when that is switched off, the rugcheck request.
PoolNotified(p, inList, sizeOk) ==
    /\ poolTasks # <<>> /\ poolTasks[p] = "new"
    /\ poolTasks' = [poolTasks EXCEPT ![p] =
                       IF ~shouldBuy(inList) \/ ~sizeOk THEN "skipped"
                       ELSE IF env.checkRenounced THEN "mintable"
                       ELSE "rugcheck"]
    /\ UNCHANGED <<tpuVars, execVars, botVars, mutexVars, env, processingToken, walletSells>>

\* checkMintable answers: anything but true skips the pool.
PoolMintable(p, renounced) ==
    /\ poolTasks # <<>> /\ poolTasks[p] = "mintable"
    /\ poolTasks' = [poolTasks EXCEPT ![p] = IF renounced THEN "rugcheck" ELSE "skipped"]
    /\ UNCHANGED <<tpuVars, execVars, botVars, mutexVars, env, processingToken, walletSells>>

\* The rugcheck report arrives (or the request fails, which ends
\* processRaydiumPool with a rejection); without "danger" in it buy() is
\* called and runs up to its first await: the market query when the token
\* account is not known yet, the blockhash query otherwise.
PoolRugcheck(p, outcome, known) ==
    /\ poolTasks # <<>> /\ poolTasks[p] = "rugcheck"
    /\ poolTasks' = [poolTasks EXCEPT ![p] =
                       CASE outcome = "failed" -> "rejected"
                         [] outcome = "danger" -> "skipped"
                         [] OTHER -> IF known THEN "blockhash" ELSE "market"]
    /\ UNCHANGED <<tpuVars, execVars, botVars, mutexVars, env, processingToken, walletSells>>

\* getMinimalMarketV3 answers or throws.
PoolMarket(p, ok) ==
    /\ poolTasks # <<>> /\ poolTasks[p] = "market"
    /\ IF ok
       THEN poolTasks' = [poolTasks EXCEPT ![p] = "blockhash"] /\ UNCHANGED processingToken
       ELSE BuyFailed(p)
    /\ UNCHANGED <<tpuVars, execVars, botVars, mutexVars, env, walletSells>>

\* getLatestBlockhash answers or throws; the transaction is built, signed
\* and handed to sendRawTransaction.
PoolBlockhash(p, ok) ==
    /\ poolTasks # <<>> /\ poolTasks[p] = "blockhash"
    /\ IF ok
       THEN poolTasks' = [poolTasks EXCEPT ![p] = "send"] /\ UNCHANGED processingToken
       ELSE BuyFailed(p)
    /\ UNCHANGED <<tpuVars, execVars, botVars, mutexVars, env, walletSells>>

\* sendRawTransaction answers with the signature, and only now
\* `processingToken = true`; or it throws.
PoolSent(p, ok) ==
    /\ poolTasks # <<>> /\ poolTasks[p] = "send"
    /\ IF ok
       THEN processingToken' = TRUE /\ poolTasks' = [poolTasks EXCEPT ![p] = "confirm"]
       ELSE BuyFailed(p)
    /\ UNCHANGED <<tpuVars, execVars, botVars, mutexVars, env, walletSells>>

\* confirmTransaction answers: confirmed, an error in the confirmation
\* (logged; the flag stays set), or an exception.  On a confirmed buy
\* savePoolInStorage is called and not awaited: it calls
\* poolsSaveFileMutex.lock, which starts the save or queues it behind one
\* that is running; then, in direct sell mode, the pool is sold at once.
PoolConfirmed(p, outcome) ==
    /\ poolTasks # <<>> /\ poolTasks[p] = "confirm"
    /\ CASE outcome = "threw" -> BuyFailed(p) /\ UNCHANGED mutexVars
         [] outcome = "error" ->
              /\ poolTasks' = [poolTasks EXCEPT ![p] = "unconfirmed"]
              /\ UNCHANGED <<processingToken, mutexVars>>
         [] OTHER ->
              /\ poolTasks' = [poolTasks EXCEPT ![p] =
                                 IF env.sellMode = "direct" THEN "sell" ELSE "bought"]
              /\ LockCall(p)
              /\ UNCHANGED processingToken
    /\ UNCHANGED <<tpuVars, execVars, botVars, env, walletSells>>

\* Direct sell mode: sellTokenFundsFromLPAddress answers (sold or not), or
\* throws into the catch block; the flag is cleared either way.
PoolSold(p, ok) ==
    /\ poolTasks # <<>> /\ poolTasks[p] = "sell"
    /\ processingToken' = FALSE
    /\ poolTasks' = [poolTasks EXCEPT ![p] = IF ok THEN "done" ELSE "failed"]
    /\ UNCHANGED <<tpuVars, execVars, botVars, mutexVars, env, walletSells>>

\* Auto sell mode: the wallet subscription reports a change of a token
\* account of the wallet other than the quote account, of whatever mint and
\* whatever the state of the pools; after AUTO_SELL_DELAY sell() is called.
WalletNotified ==
    /\ poolTasks # <<>> /\ env.sellMode = "auto"
    /\ walletSells.notified < MaxWalletNotifs
    /\ walletSells' = [notified |-> walletSells.notified + 1,
                       selling |-> walletSells.selling + 1]
    /\ UNCHANGED <<tpuVars, execVars, botVars, mutexVars, env, processingToken, poolTasks>>

\* What sell() can do: answer true, answer false, or reject.
SellOutcomes == {"sold", "unsold", "threw"}

\* A sell() started by the wallet callback settles: its `then` clears the
\* flag whether or not anything was sold; a rejection skips the `then`.
WalletSold(outcome) ==
    /\ poolTasks # <<>> /\ walletSells.selling >= 1
    /\ walletSells' = [walletSells EXCEPT !.selling = @ - 1]
    /\ processingToken' = IF outcome = "threw" THEN processingToken ELSE FALSE
    /\ UNCHANGED <<tpuVars, execVars, botVars, mutexVars, env, poolTasks>>

RugcheckOutcomes == {"clean", "danger", "failed"}

\* runListener with ONE_TOKEN_AT_A_TIME set and the snipe list off.  The
\* save of pool p is caller p of poolsSaveFileMutex; its callback catches
\* every error of the file calls, so it never throws.
InitListener ==
    /\ TpuUnloaded /\ ExecutorIdle /\ BotIdle /\ NewSaveMutex
    /\ env \in {[oneTokenAtATime |-> TRUE, useSnipeList |-> FALSE,
                 checkRenounced |-> c, sellMode |-> s] :
                    c \in BOOLEAN, s \in {"direct", "auto"}}
    /\ processingToken = FALSE
    /\ poolTasks = [p \in ListenedPools |-> "new"]
    /\ walletSells = [notified |-> 0, selling |-> 0]

NextListener ==
    \/ \E p \in ListenedPools, sizeOk \in BOOLEAN : PoolNotified(p, FALSE, sizeOk)
    \/ \E p \in ListenedPools, renounced \in BOOLEAN : PoolMintable(p, renounced)
    \/ \E p \in ListenedPools, outcome \in RugcheckOutcomes, known \in BOOLEAN :
          PoolRugcheck(p, outcome, known)
    \/ \E p \in ListenedPools, ok \in BOOLEAN : PoolMarket(p, ok)
    \/ \E p \in ListenedPools, ok \in BOOLEAN : PoolBlockhash(p, ok)
    \/ \E p \in ListenedPools, ok \in BOOLEAN : PoolSent(p, ok)
    \/ \E p \in ListenedPools, outcome \in ConfirmOutcomes : PoolConfirmed(p, outcome)
    \/ \E p \in ListenedPools, ok \in BOOLEAN : PoolSold(p, ok)
    \/ WalletNotified
    \/ \E outcome \in SellOutcomes : WalletSold(outcome)
    \/ \E p \in ListenedPools : Resume(p)
    \/ \E p \in ListenedPools : CallbackDone(p, FALSE)
    \/ \E p \in ListenedPools : Release(p)

SpecListener == InitListener /\ [][NextListener]_vars

\* ================================================================== claims
\* The elements of s at the positions P, in order.
KeepPositions(s, P) ==
    [n \in 1..Cardinality(P) |->
        s[CHOOSE p \in P : Cardinality({q \in P : q <= p}) = n]]

\* Reference fanout of a list of leaders: the address of each leader that
\* publishes one, once per leader, at the leader's first occurrence.
ExpectedSockets(ldrs, map) ==
    LET P == {i \in 1..Len(ldrs) :
                 /\ MapGet(map, ldrs[i]) \in Sockets
                 /\ \A j \in 1..(i - 1) : ldrs[j] # ldrs[i]}
    IN  [n \in 1..Cardinality(P) |-> MapGet(map, KeepPositions(ldrs, P)[n])]

\* C1 (as claimed): when sendRaw resolves its targets, they are the addresses
\* of the leaders of the fanoutSlots slots starting at the current estimate,
\* and the slots the fanout was taken from do not all lie before the estimate.
C1_FanoutStartsAtEstimate ==
    [][(call' # call /\ call'.pc = "sent")
        => LET est == estimatedCurrentSlot(recent_slots)
           IN  est # UNDEFINED
               => /\ call'.addrs =
                       ExpectedSockets([i \in 1..fanoutSlots |-> LeaderAt(est + i - 1)],
                                       leaderTpuMap)
                  /\ lastSlot >= est]_vars

\* C2 (as claimed): with advancing notifications, a healthy upstream and fair
\* scheduling, every notified slot s is eventually covered by the cache:
\* some later state has lastSlot() >= s.
C2_CacheFollowsNotifications ==
    \A s \in LiveSlots : [](notified = s => <>(lastSlot >= s))

\* C3 (as claimed): the list delivered by leaderSockets(k) has at most k
\* entries, each the socket of a leader among the first k schedule entries.
C3_AtMostKFromFirstK ==
    lookup.resolved
    => /\ Len(lookup.list) <= lookup.k
       /\ \A n \in 1..Len(lookup.list) :
            \E i \in 1..Min(lookup.k, Len(leaders)) :
                MapGet(leaderTpuMap, leaders[i]) = lookup.list[n]

\* C4 (as claimed): leaderSockets(k) never returns the same socket address
\* twice, whatever the schedule and the contact map.
C4_NoDuplicateSockets ==
    lookup.resolved
    => \A i, j \in 1..Len(lookup.list) : i # j => lookup.list[i] # lookup.list[j]

\* C4 (amended): an address occurs in the list at most once per leader
\* identity of the schedule that publishes it; so the list has no duplicates
\* when different leaders publish different addresses.
C4_OncePerPublishingLeader ==
    lookup.resolved
    => \A a \in Sockets :
          Count(lookup.list, a)
              <= Cardinality({l \in Range(leaders) : MapGet(leaderTpuMap, l) = a})

\* Two leaders of the schedule publish one address and the list holds it twice.
C4_Witness ==
    /\ lookup.resolved
    /\ \E a \in Sockets :
          /\ Cardinality({l \in Range(leaders) : MapGet(leaderTpuMap, l) = a}) = 2
          /\ Count(lookup.list, a) = 2

\* C5: the list is the sockets of the reachable leaders among the walked
\* entries, one per leader identity, in the order of first appearance.
C5_FirstSeenOrder ==
    lookup.resolved
    => lookup.list = ExpectedSockets(Walked(leaders, lookup.k), leaderTpuMap)

\* Leaders [A, A, B] with A -> s1 and B -> s2, k = 3, give [s1, s2].
C5_Witness ==
    /\ leaders = <<1, 1, 2>>
    /\ MapGet(leaderTpuMap, 1) = 1 /\ MapGet(leaderTpuMap, 2) = 2
    /\ lookup.k = 3 /\ lookup.resolved
    /\ lookup.list = <<1, 2>>

\* C6: a leader whose contact entry is null or missing contributes nothing
\* and does not fail or block the lookup: every entry of the list is a real
\* address, every reachable walked leader's address is in it, and these keep
\* their schedule order; the lookup resolves whenever k <= length(leaders).
C6_UnreachableSkipped ==
    /\ (lookup.k >= 1 /\ lookup.k <= Len(leaders)) => lookup.resolved
    /\ lookup.resolved
       => /\ \A n \in 1..Len(lookup.list) : lookup.list[n] \in Sockets
          /\ \A i \in 1..Len(Walked(leaders, lookup.k)) :
                MapGet(leaderTpuMap, leaders[i]) \in Sockets
                => \E n \in 1..Len(lookup.list) : lookup.list[n] = MapGet(leaderTpuMap, leaders[i])
          /\ \A i, j \in 1..Len(leaders) :
                (/\ i < j
                 /\ MapGet(leaderTpuMap, leaders[i]) \in Sockets
                 /\ MapGet(leaderTpuMap, leaders[j]) \in Sockets
                 /\ MapGet(leaderTpuMap, leaders[i]) # MapGet(leaderTpuMap, leaders[j])
                 /\ \A h \in 1..(j - 1) : MapGet(leaderTpuMap, leaders[h]) # MapGet(leaderTpuMap, leaders[j]))
                => \E n, m \in 1..Len(lookup.list) :
                      /\ n < m
                      /\ lookup.list[n] = MapGet(leaderTpuMap, leaders[i])
                      /\ lookup.list[m] = MapGet(leaderTpuMap, leaders[j])

\* A resolved lookup over a schedule with a null entry and a missing entry
\* between two reachable leaders.
C6_Witness ==
    /\ lookup.resolved
    /\ Len(lookup.list) = 2
    /\ \E i \in 1..Len(leaders) : MapGet(leaderTpuMap, leaders[i]) = NULL
    /\ MapGet(leaderTpuMap, leaders[1]) \in Sockets
    /\ MapGet(leaderTpuMap, leaders[2]) \in {NULL, UNDEFINED}

\* C7 (as claimed): if the send to any one address fails, sendRaw reports
\* failure, whatever the order in which the callbacks complete.
C7_AnyFailureReported ==
    (call.pc = "sent" /\ call.failed) => call.result.state = "rejected:send"

\* C7 (amended): if the first callback to complete reports a failure,
\* sendRaw reports failure, also when later callbacks report success.
C7_FirstFailureReported ==
    (call.pc = "sent" /\ call.handled > 0 /\ call.first.error)
    => call.result.state = "rejected:send"

\* The first callback failed, a later one succeeded, the call is rejected.
C7_Witness ==
    /\ call.pc = "sent" /\ call.first.error /\ call.succeeded
    /\ call.result.state = "rejected:send"

\* C8 (as claimed): once every send callback of a sendRaw call has fired the
\* call has completed, with a signature or with a failure; also when the
\* address list is empty.
C8_SendRawCompletes ==
    (call.pc = "sent" /\ call.pending = {}) => call.result.state # "pending"

\* C9 (as claimed): one datagram per returned address, carrying the input
\* bytes, all issued before any callback; no address gets two datagrams.
C9_OneDatagramPerAddress ==
    call.pc = "sent"
    => /\ Len(call.datagrams) = Len(call.addrs)
       /\ \A i \in 1..Len(call.addrs) :
             call.datagrams[i] = [to |-> call.addrs[i], payload |-> call.bytes]
       /\ \A i, j \in 1..Len(call.datagrams) :
             i # j => call.datagrams[i].to # call.datagrams[j].to

\* C9 (amended): one datagram per entry of the returned list, in list order,
\* carrying the input bytes, none skipped, all issued before any callback is
\* handled (every callback, pending or handled, belongs to an issued send);
\* an address gets as many datagrams as it has entries in the list.
C9_OneDatagramPerEntry ==
    call.pc = "sent"
    => /\ Len(call.datagrams) = Len(call.addrs)
       /\ \A i \in 1..Len(call.addrs) :
             call.datagrams[i] = [to |-> call.addrs[i], payload |-> call.bytes]
       /\ call.pending \subseteq 1..Len(call.datagrams)
       /\ call.handled + Cardinality(call.pending) = Len(call.datagrams)
       /\ \A a \in Sockets :
             Cardinality({i \in 1..Len(call.datagrams) : call.datagrams[i].to = a})
                 = Count(call.addrs, a)

\* A call with two targets, one callback handled and one outstanding.
C9_Witness ==
    /\ call.pc = "sent" /\ Len(call.addrs) = 2
    /\ call.handled = 1 /\ Cardinality(call.pending) = 1

\* C10: send with a versioned transaction and a signer list, or with a legacy
\* transaction and no signer list, fails with InvalidArguments and the call
\* has made no blockhash query, no leaderSockets lookup and no datagram send.
C10_InvalidArgumentsBeforeNetwork ==
    (/\ call.api = "send"
     /\ \/ call.kind = "versioned" /\ call.sg = "signers"
        \/ call.kind = "legacy" /\ call.sg = "undefined")
    => /\ call.pc = "done"
       /\ call.result.state = "rejected:InvalidArguments"
       /\ call.rpc = 0 /\ call.lookups = 0 /\ call.datagrams = <<>>

\* A versioned transaction sent with a signer list has been rejected.
C10_Witness ==
    /\ call.api = "send" /\ call.kind = "versioned" /\ call.sg = "signers"
    /\ call.result.state = "rejected:InvalidArguments"

\* C11: whatever integer the constructor is given, the effective fanoutSlots
\* lies in 1..100: below 1 it is 1, above 100 it is 100, inside the range it
\* is the given value; and every sendRaw passes this value to leaderSockets.
C11_FanoutClamped ==
    /\ fanoutSlots >= 1 /\ fanoutSlots <= 100
    /\ fanoutSlots = (IF configFanout < 1 THEN 1
                      ELSE IF configFanout > 100 THEN 100 ELSE configFanout)
    /\ call.lookups > 0 => call.k = fanoutSlots

\* A client built with a fanout below 1 has sent to the first leader's socket.
C11_Witness ==
    /\ configFanout < 1
    /\ call.pc = "sent" /\ call.k = 1 /\ Len(call.datagrams) >= 1

\* The last n elements of s (all of s when it has fewer).
LastN(s, n) == SubSeq(s, Len(s) - Min(n, Len(s)) + 1, Len(s))

\* C12: the window never holds more than 12 entries after a record call, and
\* holds exactly 12 once more than 12 slots have been recorded in total.
C12_WindowBounded ==
    Loaded => /\ Len(recent_slots) <= 12
              /\ Len(recorded) > 12 => Len(recent_slots) = 12

\* Fourteen slots have been recorded and the window holds twelve.
C12_Witness ==
    Len(recorded) = 14 /\ Len(recent_slots) = 12

\* C13 (as claimed): after n recorded slots the window is the last min(n, 12)
\* recorded values in arrival order; the most recent one is in the window.
C13_OldestEvictedFirst ==
    Loaded => /\ recent_slots = LastN(recorded, 12)
              /\ recorded[Len(recorded)] \in Range(recent_slots)

\* The element at 0-based position k of w in ascending order.
KthSmallest(w, k) ==
    CHOOSE v \in Range(w) :
        /\ Cardinality({j \in 1..Len(w) : w[j] < v}) <= k
        /\ k < Cardinality({j \in 1..Len(w) : w[j] <= v})

\* median + offset + 48, with m = (n-1) div 2.
UpperBound(w) ==
    LET m == (Len(w) - 1) \div 2
    IN  KthSmallest(w, m) + ((Len(w) - 1) - m) + 48

\* The largest element of w that is <= UpperBound(w).
RefEstimate(w) ==
    LET ok == {x \in Range(w) : x <= UpperBound(w)}
    IN  CHOOSE x \in ok : \A y \in ok : y <= x

\* C14 (as claimed): for every non-empty window, of odd and of even size,
\* estimate() is the largest element <= sorted[m] + ((n-1) - m) + 48 with
\* m = (n-1) div 2.
C14_EstimateIsBoundedMax ==
    estimate.window # <<>> => estimate.value = RefEstimate(estimate.window)

\* C15 (as claimed): estimate() returns an element of the window, at least
\* min(window) and at most median + offset + 48; never a non-slot value.
C15_EstimateWithinWindow ==
    estimate.window # <<>>
    => /\ estimate.value \in Range(estimate.window)
       /\ \A x \in Range(estimate.window) : \E y \in Range(estimate.window) :
             y <= x /\ y <= estimate.value
       /\ estimate.value <= UpperBound(estimate.window)

\* C16: after load and after every successful schedule refresh, lastSlot()
\* is firstSlot + length(leaders) - 1 for the firstSlot and leaders installed
\* together: firstSlot is a slot number and leaders[i] is the leader of slot
\* firstSlot + i - 1, so lastSlot() is the slot of the last cached leader.
C16_LastSlotOfInstalled ==
    Loaded
    => /\ first_slot # UNDEFINED
       /\ lastSlot = first_slot + Len(leaders) - 1
       /\ \A i \in 1..Len(leaders) : leaders[i] = LeaderAt(first_slot + i - 1)
       /\ Len(leaders) >= 1 => leaders[Len(leaders)] = LeaderAt(lastSlot)

\* A refresh has installed a schedule starting at a later slot than load did.
C16_Witness ==
    /\ Loaded /\ first_slot > StartSlot /\ Len(leaders) >= 2
    /\ runPc = "timer"

\* C17: a failed fetch changes nothing in the cache and does not end the
\* pass early.  A pass whose contact-list query fails keeps leaderTpuMap and
\* goes on to the estimate and the schedule check; one whose epoch-info query
\* fails keeps slotsInEpoch and lastEpochInfoSlot and goes on to the schedule
\* check; one whose schedule query fails keeps firstSlot and leaders and
\* re-arms the timer.
\* (load never assigns last_epoch_info_slot, so the epoch test of line 355
\* compares with NaN and no pass makes the epoch-info query: that conjunct
\* constrains no reachable step.)
C17_FailedFetchKeepsCache ==
    [][/\ ("cluster" \in passWarns' /\ "cluster" \notin passWarns)
          => /\ UNCHANGED cacheVars
             /\ LET est == estimatedCurrentSlot(recent_slots)
                IN  /\ estimate' = [window |-> recent_slots, value |-> est]
                    /\ (est # UNDEFINED /\ est >= lastSlot - 100)
                          => runPc' = "awaitSlotLeaders" /\ passEst' = est
       /\ ("epoch" \in passWarns' /\ "epoch" \notin passWarns)
          => /\ UNCHANGED cacheVars
             /\ (passEst >= lastSlot - 100) => runPc' = "awaitSlotLeaders"
       /\ ("leaders" \in passWarns' /\ "leaders" \notin passWarns)
          => /\ UNCHANGED cacheVars
             /\ runPc' = "timer"]_vars

\* In one pass the contact-list query failed, the schedule query was still
\* made and failed too, and the cache holds a schedule and a contact map.
C17_Witness ==
    /\ passWarns = {"cluster", "leaders"}
    /\ runPc = "timer"
    /\ Len(leaders) >= 1 /\ first_slot = StartSlot
    /\ \E l \in DOMAIN leaderTpuMap : leaderTpuMap[l] \in Sockets

\* C18 (as claimed): when a bootstrap query fails, load completes with that
\* failure: its caller receives an error result, not a promise that never
\* settles.
C18_LoadFailurePropagates ==
    loadPc = "stuck" => loadResult = "rejected"

\* The step of a pass that takes the estimate and decides on the schedule
\* query: the timer callback when no contact-list fetch is due, or the
\* continuation after that fetch.
PassDecides ==
    \/ \E e \in TimerDelays : ~ClusterDue(e) /\ TimerFire(e)
    \/ runPc = "awaitClusterNodes"
        /\ \E ok \in BOOLEAN, ans \in QueryAnswers : QueryDone(ok, ans)

\* C19: a pass makes the schedule query exactly when its estimate is
\* >= lastSlot() - 100 (an undefined estimate is not); when the query
\* succeeds firstSlot becomes that estimate and leaders the schedule fetched
\* from it; otherwise no query is made and firstSlot and leaders are
\* unchanged; nothing else changes firstSlot or leaders after load.
C19_RefetchWhenNearEnd ==
    [][/\ PassDecides
          => LET est == estimatedCurrentSlot(recent_slots)
             IN  /\ UNCHANGED <<first_slot, leaders>>
                 /\ IF est # UNDEFINED /\ est >= lastSlot - 100
                    THEN runPc' = "awaitSlotLeaders" /\ passEst' = est
                    ELSE runPc' = "timer"
       /\ (runPc' = "awaitSlotLeaders" /\ runPc # "awaitSlotLeaders")
          => /\ passEst' # UNDEFINED /\ passEst' >= lastSlot - 100
             /\ passEst' = estimate'.value
       /\ (runPc = "awaitSlotLeaders" /\ runPc' # runPc /\ "leaders" \notin passWarns')
          => /\ first_slot' = passEst
             /\ Len(leaders') <= Min(200, slots_in_epoch)
             /\ \A i \in 1..Len(leaders') : leaders'[i] = LeaderAt(passEst + i - 1)
       /\ (Loaded /\ (first_slot' # first_slot \/ leaders' # leaders))
          => runPc = "awaitSlotLeaders" /\ "leaders" \notin passWarns']_vars

\* A pass with the estimate far ahead has refetched: the cache now starts at
\* that estimate; the epoch is long, so a pass with the estimate at the
\* start slot had made no query.
C19_Witness ==
    /\ Loaded /\ runPc = "timer" /\ passWarns = {}
    /\ slots_in_epoch > 2 * MAX_FANOUT_SLOTS
    /\ estimate.value >= StartSlot + FarJump
    /\ first_slot = estimate.value
    /\ Len(leaders) = 2 * MAX_FANOUT_SLOTS

\* C20 (as claimed): a pass that starts more than 5 minutes after load or
\* after the last contact-map refresh refetches the contact map, so no pass
\* ever runs its schedule check with a contact map older than 5 minutes and
\* one second.
C20_ContactMapRefetched ==
    [][(runPc = "timer" /\ stopwatch' # stopwatch /\ stopwatch' > CLUSTER_REFRESH_MS)
        => runPc' = "awaitClusterNodes"]_vars

\* C21 (as claimed): in every pass, from the first one after load on, the
\* cache holds a reference slot lastEpochInfoSlot and the pass refetches the
\* epoch info when its estimate is >= lastEpochInfoSlot - slotsInEpoch.
C21_EpochInfoRefetched ==
    [][PassDecides
        => LET est == estimatedCurrentSlot(recent_slots)
           IN  est # UNDEFINED
               => /\ last_epoch_info_slot # UNDEFINED
                  /\ (est >= last_epoch_info_slot - slots_in_epoch)
                        => runPc' = "awaitEpochInfo"]_vars

\* C22: every pass ends by arming exactly one next pass, whatever its fetches
\* and its estimate did: at any time either one timer is armed and no pass
\* runs, or one pass is suspended on a query and no timer is armed; the loop
\* is never dead, and again and again a timer is armed.
C22_LoopRearmed ==
    /\ [](Loaded => /\ runPc \in {"timer", "awaitClusterNodes", "awaitEpochInfo",
                                  "awaitSlotLeaders"}
                    /\ armed = (IF runPc = "timer" THEN 1 ELSE 0))
    /\ []<>(runPc = "timer" /\ armed = 1)

\* A pass whose contact-list fetch failed and whose estimate was undefined
\* has ended with one timer armed.
C22_Witness ==
    /\ runPc = "timer" /\ armed = 1
    /\ passWarns = {"cluster"}
    /\ estimate.window # <<>> /\ estimate.value = UNDEFINED

\* C23: with a push endpoint, a notification makes exactly one record call,
\* in the step in which it arrives and whatever the refresh loop is doing,
\* with slot + 1 for a "completed" update and with slot otherwise; without a
\* push endpoint there is no subscription, no notification is handled and
\* the window holds the start slot alone.
C23_NotificationsRecorded ==
    [][/\ \A slot \in NotifSlots, type \in UpdateTypes :
             Notify(slot, type)
             => /\ websocket /\ subscription
                /\ LET v == IF type = "completed" THEN slot + 1 ELSE slot
                   IN  /\ recorded' = Append(recorded, v)
                       /\ Len(recent_slots) < 12 => recent_slots' = Append(recent_slots, v)
                /\ UNCHANGED <<runPc, passEst, cacheVars>>
       /\ Len(recorded') # Len(recorded) => Len(recorded') = Len(recorded) + 1
       /\ (Loaded' /\ ~websocket')
             => /\ ~subscription' /\ notifCount' = 0
                /\ recent_slots' = <<StartSlot>> /\ recorded' = <<StartSlot>>
       /\ (Loaded' /\ websocket') => subscription' /\ Len(recorded') = 1 + notifCount']_vars

\* While a schedule query was in flight a "completed" update for the slot
\* after the start slot was recorded as the slot after it.
C23_Witness ==
    /\ websocket /\ runPc = "awaitSlotLeaders"
    /\ recorded = <<StartSlot, StartSlot + FarJump, StartSlot + 2>>
    /\ recent_slots = recorded
    /\ estimate.window = <<StartSlot>>

\* C24: the result of a sendRaw call is pending until a send callback has
\* completed and from then on is what the first completed callback made it:
\* the signature of the bytes if it reported no error, failure if it
\* reported one; later callbacks change nothing.
C24_FirstCallbackDecides ==
    call.pc = "sent"
    => /\ call.handled = 0 => call.result = [state |-> "pending", sig |-> 0]
       /\ call.handled > 0
          => call.result = IF call.first.error
                           THEN [state |-> "rejected:send", sig |-> 0]
                           ELSE [state |-> "resolved", sig |-> call.bytes.sigs[1]]

\* The first callback succeeded, a later one failed, and the call is still
\* resolved with the signature.
C24_Witness ==
    /\ call.pc = "sent" /\ call.handled = 2
    /\ ~call.first.error /\ call.failed
    /\ call.result.state = "resolved" /\ call.result.sig \in Signatures

\* C25: after load only the refresh loop writes the cache.  A step of a
\* lookup, of send or sendRaw (or of one of their callbacks) or of the
\* notification handler leaves firstSlot, leaders, leaderTpuMap, slotsInEpoch
\* and lastEpochInfoSlot unchanged, whatever the refresh loop is doing; a
\* change of the cache is a step of a pass resuming after a query; and the
\* step of a pass that takes the estimate leaves the window unchanged.
C25_OnlyRefreshWritesCache ==
    [][/\ (lookup' # lookup \/ call' # call \/ notifCount' # notifCount)
             => UNCHANGED cacheVars
       /\ (Loaded /\ cacheVars' # cacheVars)
             => /\ runPc \in {"awaitClusterNodes", "awaitEpochInfo", "awaitSlotLeaders"}
                /\ UNCHANGED <<lookup, call, notifCount, recent_slots>>
       /\ estimate' # estimate
             => /\ estimate'.window = recent_slots
                /\ UNCHANGED <<recent_slots, recorded>>]_vars

\* After a refresh has replaced the schedule by a shorter one, a lookup and
\* a send with one callback handled have run while the next pass awaits its
\* schedule query.
C25_Witness ==
    /\ Len(leaders) < MaxSchedule
    /\ runPc = "awaitSlotLeaders"
    /\ lookup.resolved /\ Len(lookup.list) >= 1
    /\ call.pc = "sent" /\ call.handled >= 1
    /\ notifCount >= 1

\* C26: every schedule query asks for min(200, slotsInEpoch) slots with the
\* slotsInEpoch the cache holds, so the cached schedule has exactly that
\* many entries after a full answer and fewer after a short one, and never
\* more than 200.
C26_ScheduleWidth ==
    (loadPc \in {"getClusterNodes", "loaded"})
    => /\ Len(leaders) <= 200
       /\ Len(leaders) <= slots_in_epoch
       /\ \/ Len(leaders) = (IF slots_in_epoch < 200 THEN slots_in_epoch ELSE 200)
          \/ Len(leaders) = MaxSchedule - 1

\* A 432000-slot epoch: a refresh has installed 200 leaders starting at a
\* later slot than load did.
C26_Witness ==
    /\ Loaded /\ slots_in_epoch = 432000
    /\ first_slot > StartSlot /\ Len(leaders) = 200

\* C27: a contact-map fetch, at load or in a pass, installs a map built from
\* the one answer alone: its keys are exactly the peers of the answer, each
\* peer maps to the endpoint the answer gives it, null where it gives none;
\* and the contact map only ever changes to such a map.
C27_ContactMapRebuilt ==
    [][/\ \A ans \in ClusterAnswers :
             (\/ runPc = "awaitClusterNodes" /\ QueryDone(TRUE, ans)
              \/ LoadClusterNodes(TRUE, ans))
             => /\ DOMAIN leaderTpuMap' = {ans[i].pubkey : i \in DOMAIN ans}
                /\ \A i \in DOMAIN ans : leaderTpuMap'[ans[i].pubkey] = ans[i].tpu
       /\ leaderTpuMap' # leaderTpuMap
             => \E ans \in ClusterAnswers :
                   /\ DOMAIN leaderTpuMap' = {ans[i].pubkey : i \in DOMAIN ans}
                   /\ \A i \in DOMAIN ans : leaderTpuMap'[ans[i].pubkey] = ans[i].tpu]_vars

\* A send went to three leaders' sockets under a map listing every peer; the
\* map installed since lists two peers only: the third peer's entry is gone.
C27_Witness ==
    /\ Loaded /\ call.pc = "sent" /\ Len(call.addrs) = NumLeaders
    /\ DOMAIN leaderTpuMap = 1..2
    /\ \E l \in Range(leaders) : l \notin DOMAIN leaderTpuMap

\* C28 (as claimed): leaderSockets(k) completes for every k in 1..100 and
\* every cache, also when the cached schedule has fewer than k entries.
C28_LeaderSocketsCompletes ==
    (lookup.k >= 1 /\ lookup.k <= 100) => lookup.resolved

\* C29: the window of a loaded service is never empty, so the estimate call
\* of a pass never throws and the loop is never left dead.
C29_WindowNeverEmpty ==
    Loaded => /\ Len(recent_slots) >= 1
              /\ runPc # "dead"
              /\ estimate.value # UNDEFINED => estimate.window # <<>>

\* More than 12 slots have been recorded, and a pass has taken its estimate
\* from the full window and re-armed the timer.
C29_Witness ==
    /\ Len(recorded) > 12
    /\ Len(estimate.window) = 12 /\ estimate.window = recent_slots
    /\ runPc = "timer" /\ armed = 1

\* C30: firstSlot and leaders change in one step, so at every point where
\* another task can run leaders is the schedule fetched for start slot
\* firstSlot; and the start slot a pass installs is the estimate it took
\* before its queries, from the window as it was then, whatever was
\* recorded while the queries were in flight.
C30_ScheduleReplacedAtomically ==
    [][/\ Loaded'
          => \A i \in 1..Len(leaders') : leaders'[i] = LeaderAt(first_slot' + i - 1)
       /\ (Loaded /\ (first_slot' # first_slot \/ leaders' # leaders))
          => /\ first_slot' = passEst
             /\ passEst = estimate.value
             /\ passEst = estimatedCurrentSlot(estimate.window)
             /\ UNCHANGED estimate]_vars

\* A pass has installed its estimate as start slot although slots recorded
\* while its schedule query was in flight give a different estimate now.
C30_Witness ==
    /\ Loaded /\ runPc = "timer" /\ passWarns = {}
    /\ first_slot = estimate.value /\ first_slot > StartSlot
    /\ Len(recent_slots) = Len(estimate.window) + 2
    /\ estimatedCurrentSlot(recent_slots) # UNDEFINED
    /\ estimatedCurrentSlot(recent_slots) # first_slot

\* C31 (as claimed): firstSlot never decreases: every schedule refresh
\* installs a start slot >= the previous one, for every order and value of
\* the slot notifications.
C31_FirstSlotNeverDecreases ==
    [][Loaded => first_slot' >= first_slot]_vars

\* The refresh loops kept alive by the executor, and the loops with a
\* pending timer (a loop suspended on a query has none until it is answered).
LiveLoops == {i \in 1..Len(execs) : execs[i].service = "running"}
PendingTimers == Cardinality({i \in 1..Len(execs) : execs[i].timers >= 1})

\* C32 (as claimed): an executor keeps at most one refresh loop alive,
\* however many executeAndConfirm calls are made; the number of pending
\* refresh timers does not grow with the number of calls.
C32_OneRefreshLoop ==
    Cardinality(LiveLoops) <= 1 /\ PendingTimers <= 1

\* The invocations inside buy(): from its call to its return.
InBuy == {t \in Tasks : tasks[t].pc \in {"ata", "swap"}}

\* C33 (as claimed): with oneTokenAtATime, at most one proposeBuy invocation
\* is inside buy() at any time, also when other invocations return early or
\* throw before acquiring buyMutex.
C33_OneBuyAtATime ==
    (tasks # <<>> /\ config.oneTokenAtATime) => Cardinality(InBuy) <= 1

\* C34 (as claimed): with the snipe list off and filter checking on,
\* approveToken(pool) returns true only if every filter configured at
\* construction returned ok for that pool during that call, for every pool
\* in a sequence of calls on one Bot.
C34_ApprovedByEveryFilter ==
    \A t \in DOMAIN tasks :
        (~config.useSnipeList /\ tasks[t].approved = "true")
            => Range(FilterSetup) \subseteq tasks[t].oks

\* ceil(d / i) for positive i.
CeilDiv(d, i) == (d + i - 1) \div i

\* The last n entries of evals exist and are all true.
LastAllTrue(evals, n) ==
    Len(evals) >= n /\ \A j \in (Len(evals) - n + 1)..Len(evals) : evals[j]

\* Some n consecutive entries of evals are all true.
SomeRun(evals, n) ==
    \E k \in 1..Len(evals) : LastAllTrue(SubSeq(evals, 1, k), n)

\* C35: with a non-zero check interval and duration, filterMatch returns
\* true only when the last consecutiveMatchCount evaluations all returned
\* true (the running count is the number of true evaluations since the last
\* failing one); it makes at most ceil(duration / interval) evaluations and
\* returns false, after exactly that many, if the count was never reached.
C35_ConsecutiveMatches ==
    \A t \in DOMAIN tasks :
        (~config.useSnipeList /\ config.filterCheckInterval > 0
            /\ config.filterCheckDuration > 0)
        => LET evals == tasks[t].evals
               most == CeilDiv(config.filterCheckDuration, config.filterCheckInterval)
           IN  /\ Len(evals) <= most
               /\ tasks[t].pc = "sleep"
                    => /\ LastAllTrue(evals, tasks[t].matchCount)
                       /\ ~LastAllTrue(evals, tasks[t].matchCount + 1)
               /\ tasks[t].approved = "true"
                    => /\ LastAllTrue(evals, config.consecutiveMatchCount)
                       /\ ~SomeRun(SubSeq(evals, 1, Len(evals) - 1),
                                   config.consecutiveMatchCount)
               /\ tasks[t].approved = "false"
                    => Len(evals) = most /\ ~SomeRun(evals, config.consecutiveMatchCount)

\* filterMatch has returned true on its third evaluation, two matches after
\* a failing one; and another invocation has been refused after using up
\* its evaluations.
C35_Witness ==
    /\ tasks # <<>> /\ config.consecutiveMatchCount = 2
    /\ config.filterCheckInterval = 1 /\ config.filterCheckDuration = 3
    /\ \E t \in DOMAIN tasks :
          tasks[t].approved = "true" /\ tasks[t].evals = <<FALSE, TRUE, TRUE>>
    /\ \E t \in DOMAIN tasks :
          tasks[t].approved = "false" /\ Len(tasks[t].evals) = 3

\* C36: buy() makes at most maxBuyRetries swap attempts; it stops at the
\* first confirmed one and returns true then; it returns false after
\* maxBuyRetries attempts none of which was confirmed; an attempt that
\* throws is followed by the next attempt like an unconfirmed one.
C36_BoundedRetries ==
    \A t \in DOMAIN tasks :
        LET done == tasks[t].outcomes
            n == Len(done)
        IN  /\ tasks[t].swaps <= config.maxBuyRetries
            /\ \A j \in 1..(n - 1) : done[j] # "confirmed"
            /\ tasks[t].pc = "swap" => tasks[t].swaps = n + 1
            /\ tasks[t].pc # "swap" => tasks[t].swaps = n
            /\ tasks[t].bought = "true" <=> (n >= 1 /\ done[n] = "confirmed")
            /\ tasks[t].bought = "false"
                 <=> (tasks[t].pc = "returned" /\ tasks[t].approved = "true"
                      /\ tasks[t].bought # "threw" /\ n = config.maxBuyRetries
                      /\ \A j \in 1..n : done[j] # "confirmed")

\* One buy() was confirmed on its third attempt, after an attempt that threw
\* and an unconfirmed one; another returned false after three attempts.
C36_Witness ==
    /\ tasks # <<>> /\ config.maxBuyRetries = 3
    /\ \E t \in DOMAIN tasks :
          /\ tasks[t].bought = "true"
          /\ tasks[t].outcomes = <<"threw", "unconfirmed", "confirmed">>
    /\ \E t \in DOMAIN tasks :
          tasks[t].bought = "false" /\ tasks[t].swaps = 3

\* The pools that passed shouldBuy and are inside buy(), up to the end of
\* the confirmation.
Buying ==
    {p \in DOMAIN poolTasks : poolTasks[p] \in {"market", "blockhash", "send", "confirm"}}

\* C37 (as claimed): with ONE_TOKEN_AT_A_TIME set and the snipe list off at
\* most one buy is in flight: no second pool passes shouldBuy and reaches
\* buy() while an earlier pool's buy has not finished.
C37_OneBuyInFlight ==
    (poolTasks # <<>> /\ env.oneTokenAtATime /\ ~env.useSnipeList)
        => Cardinality(Buying) <= 1

\* The callers whose callback is between its start and its completion.
Running == {c \in DOMAIN lockCalls : lockCalls[c].pc = "running"}

\* C38: Mutex.lock gives mutual exclusion: at most one callback is between
\* its start and its completion, in every interleaving, also when a lock
\* call arrives between a release and the resumption of the next waiter;
\* and the flag is set while a callback runs or a waiter exists.
C38_MutualExclusion ==
    lockCalls # <<>>
        => /\ Cardinality(Running) <= 1
           /\ (Running # {} \/ mutex.queue # <<>>
                  \/ \E c \in Lockers : lockCalls[c].pc = "resuming") => mutex.locked

\* A caller called lock between the release that resumed a waiter and that
\* waiter's resumption, queued, and now runs its callback after the waiter.
C38_Witness ==
    /\ Len(lockLog) >= 6
    /\ \E n \in 1..(Len(lockLog) - 2) :
          /\ lockLog[n].ev = "handover"
          /\ lockLog[n + 1].ev = "wait"
          /\ lockLog[n + 2] = [ev |-> "start", c |-> lockLog[n].c]
          /\ lockCalls[lockLog[n + 1].c].pc = "running"

\* The callers in the order of the given events of the log.
LoggedCallers(evs) ==
    LET P == {n \in 1..Len(lockLog) : lockLog[n].ev \in evs}
    IN  [k \in 1..Cardinality(P) |->
            lockLog[CHOOSE p \in P : Cardinality({q \in P : q <= p}) = k].c]

\* s is a prefix of t.
IsPrefix(s, t) == Len(s) <= Len(t) /\ \A k \in 1..Len(s) : s[k] = t[k]

\* The callers that have called lock, in call order: a call either waits or
\* starts at once, and a start that follows a hand-over to the same caller
\* is a resumption, not a call.
CallOrder ==
    LET P == {n \in 1..Len(lockLog) :
                 \/ lockLog[n].ev = "wait"
                 \/ /\ lockLog[n].ev = "start"
                    /\ \A q \in 1..(n - 1) : lockLog[q] # [ev |-> "wait", c |-> lockLog[n].c]}
    IN  [k \in 1..Cardinality(P) |->
            lockLog[CHOOSE p \in P : Cardinality({q \in P : q <= p}) = k].c]

\* No call is in progress: every caller is before its call or after its
\* release.
Quiet == \A c \in Lockers : lockCalls[c].pc \in {"idle", "returned", "threw"}

\* C39: Mutex.lock makes progress.  When every callback terminates, every
\* lock call eventually runs its callback and is eventually through; the
\* callbacks start in the order of the lock calls; a callback that throws
\* is followed by a release like one that returns; and when no call is in
\* progress the mutex is unlocked with an empty queue.
C39_LockProgress ==
    /\ \A c \in Lockers :
          (lockCalls[c].pc \in {"waiting", "resuming"}) ~> (lockCalls[c].pc = "running")
    /\ \A c \in Lockers :
          (lockCalls[c].pc # "idle") ~> (lockCalls[c].pc \in {"returned", "threw"})
    /\ [](IsPrefix(LoggedCallers({"start"}), CallOrder))
    /\ [](Quiet => (~mutex.locked /\ mutex.queue = <<>>))

\* All three callers are through, two of them after waiting, the first
\* holder's callback threw, and the mutex is unlocked again.
C39_Witness ==
    /\ lockCalls # <<>> /\ \A c \in Lockers : lockCalls[c].pc \in {"returned", "threw"}
    /\ Len(LoggedCallers({"wait"})) = 2
    /\ lockLog[2].ev = "throw"
    /\ ~mutex.locked /\ mutex.queue = <<>>

====
